---- MODULE Spec2Model ----
(***************************************************************************)
(* Storm material synchronisation (pxr/imaging/hdSt/material.cpp) and the  *)
(* texture binder's buffer layout (pxr/imaging/hdSt/textureBinder.cpp).    *)
(*                                                                         *)
(* Spec     : one material instance under arbitrary sequences of Sync,     *)
(*            SetSurfaceShader and Reload; every Sync is one atomic step.  *)
(* SpecConc : Sync running concurrently on all material instances, split   *)
(*            at the reads and writes of the static _fallbackGlslfx.       *)
(***************************************************************************)
EXTENDS Integers, Sequences, FiniteSets, TLC

\* ------------------------------------------------------------------ bounds
NumMaterials == 2

Materials == 1..NumMaterials
\* The material instance that Spec drives.
Primary == CHOOSE m \in Materials : \A n \in Materials : m <= n

\* ------------------------------------------------------------ dirty bits
\* HdMaterial::DirtyBits as a set of bit names; "Varying" stands for the low
\* change-tracker bits that are neither DirtyResource nor DirtyParams.
Clean == {}
AllDirty == {"DirtyParams", "DirtyResource"}
DirtyBitsValues == { Clean, {"Varying"}, {"DirtyParams"}, {"DirtyResource"} }

\* A mask that treats any set bit as dirty.
IsDirty_AnyBit(bits) == bits # Clean
\* material.cpp:153  !( !(bits & DirtyResource) && !(bits & DirtyParams) )
IsDirty(bits) == ~( ~("DirtyResource" \in bits) /\ ~("DirtyParams" \in bits) )

\* ---------------------------------------------------------------- values
DefaultMaterialTag == "defaultMaterialTag"
MaterialTags == { DefaultMaterialTag, "translucent" }

FragmentSources == { "", "F1", "F2" }
GeometrySources == { "", "G1" }

\* The VtValue stored under the key limitSurfaceEvaluation of a metadata
\* dictionary: has = the key is present, isBool = the value holds a bool.
MetaAbsent == [has |-> FALSE, isBool |-> FALSE, val |-> 0]
MetaTrue == [has |-> TRUE, isBool |-> TRUE, val |-> 1]
MetaFalse == [has |-> TRUE, isBool |-> TRUE, val |-> 0]
MetaIntOne == [has |-> TRUE, isBool |-> FALSE, val |-> 1]
Metadatas == { MetaAbsent, MetaTrue, MetaFalse, MetaIntOne }

\* material.cpp:449-456  TfMapLookupByValue(...), IsHolding<bool>() && Get<bool>()
GetHasLimitSurfaceEvaluation(metadata) ==
    LET value == IF metadata.has THEN metadata ELSE MetaAbsent
    IN  value.isBool /\ value.val = 1

\* ------------------------------------------------------- material params
TextureTypes == { "Uv", "Ptex", "Udim", "Field" }
Connections == { "/tex" }

MakeParam(kind, name, type, conn, fb) ==
    [paramType |-> kind, name |-> name, textureType |-> type,
     connection |-> conn, fallbackValue |-> fb]

IsFallback(param) == param.paramType = "Fallback"
IsPrimvarRedirect(param) == param.paramType = "PrimvarRedirect"
IsTexture(param) == param.paramType = "Texture"

\* The parameter lists the network processor may emit in Spec: none; a
\* non-texture parameter whose (unused) textureType field says Ptex; a connected
\* Ptex texture; a fallback value followed by an unconnected Uv texture.
ParamLists ==
    { <<>>,
      <<MakeParam("Fallback", "roughness", "Ptex", "", "v0")>>,
      <<MakeParam("Texture", "ptexColor", "Ptex", "/tex", "v2")>>,
      <<MakeParam("PrimvarRedirect", "st", "Uv", "", "v0"),
        MakeParam("Texture", "diffuseColor", "Uv", "", "v1")>> }
\* A list of four textures: a connected Uv, an unconnected Udim, an unconnected
\* Field and an unconnected Uv.
TextureParams ==
    <<MakeParam("Texture", "uvA", "Uv", "/tex", "v3"),
      MakeParam("Texture", "udimB", "Udim", "", "v4"),
      MakeParam("Texture", "fieldC", "Field", "", "v5"),
      MakeParam("Texture", "uvD", "Uv", "", "v6")>>

\* -------------------------------------------------- legacy texture objects
\* An HdStTextureResource, by where it came from; value is the 1x1 texel of a
\* fallback texture and "" otherwise.
NullResource == [origin |-> "null", value |-> ""]
RegistryResource == [origin |-> "registry", value |-> ""]
DelegateResource == [origin |-> "delegate", value |-> ""]
\* Builds the 1x1 texture without the parameter's value.
FallbackTexture_NoValue(param) == [origin |-> "fallback1x1", value |-> ""]
\* material.cpp:424-437  GlfUVTextureStorage::New(1, 1, param.fallbackValue)
FallbackTexture(param) == [origin |-> "fallback1x1", value |-> param.fallbackValue]

\* An HdStTextureResourceHandle pointer: empty, the registry's shared handle of
\* a connection, or a handle created by the material itself.
EmptyHandle == [kind |-> "empty", connection |-> "", resource |-> NullResource]
SharedHandle(conn, res) ==
    [kind |-> "shared", connection |-> conn, resource |-> res]
InternalHandle(res) ==
    [kind |-> "internal", connection |-> "", resource |-> res]

\* What the scene delegate and the registry answer for a connection during one
\* Sync: texIDValid (texID != -1), textureResourceFound (FindTextureResource),
\* delegateHasResource (GetTextureResource returns non-null).
TexEnv(idValid, found, delegateHas) ==
    [texIDValid |-> idValid, textureResourceFound |-> found,
     delegateHasResource |-> delegateHas]
AllTexEnvs == { TexEnv(a, b, c) : a \in BOOLEAN, b \in BOOLEAN, c \in BOOLEAN }
\* registry hit; miss in the registry and at the delegate.
SpecTexEnvs == { TexEnv(TRUE, TRUE, FALSE), TexEnv(TRUE, FALSE, FALSE) }
NoTexEnv == TexEnv(FALSE, FALSE, FALSE)

\* The registry's shared handles: per connection "absent" (no handle was
\* registered) or the texture resource the handle currently holds.
AbsentHandle == [origin |-> "absent", value |-> ""]

\* Never asks the scene delegate.
GetTextureResource_Never(env) == NullResource
\* material.cpp:394-397  sceneDelegate->GetTextureResource(connection)
GetTextureResource(env) ==
    IF env.delegateHasResource THEN DelegateResource ELSE NullResource

\* Attaches the resource to the handle found in the registry when there is one.
WrapInOwnHandle_ReuseShared(handle1, texResource, internal, registry) ==
    IF handle1.kind = "shared"
    THEN [handle |-> SharedHandle(handle1.connection, texResource),
          internal |-> internal,
          registry |-> [registry EXCEPT ![handle1.connection] = texResource]]
    ELSE [handle |-> InternalHandle(texResource),
          internal |-> Append(internal, InternalHandle(texResource)),
          registry |-> registry]
\* material.cpp:440-443  handle.reset(new HdStTextureResourceHandle(texResource));
\* _internalTextureResourceHandles.push_back(handle)
WrapInOwnHandle(handle1, texResource, internal, registry) ==
    [handle |-> InternalHandle(texResource),
     internal |-> Append(internal, InternalHandle(texResource)),
     registry |-> registry]

\* material.cpp:330-447.  Returns the handle, the material's list of internally
\* owned handles and the registry's shared handles after the call.
GetTextureResourceHandle(param, env, internal, registry) ==
    LET connection == param.connection
        connected == connection # ""
        \* Step 1 (344-372)
        texResource1 ==
            IF connected /\ env.texIDValid /\ env.textureResourceFound
            THEN RegistryResource ELSE NullResource
        \* 374-386
        handleFound == connected /\ registry[connection] # AbsentHandle
        registry1 ==
            IF handleFound
            THEN [registry EXCEPT ![connection] = texResource1]
            ELSE registry
        handle1 ==
            IF handleFound THEN SharedHandle(connection, texResource1)
            ELSE EmptyHandle
        \* Step 2 (393-398)
        texResource2 ==
            IF connected /\ texResource1 = NullResource
            THEN GetTextureResource(env)
            ELSE texResource1
        \* 410
        needsOwn ==
            ~(handle1 # EmptyHandle /\ handle1.resource # NullResource)
    IN  IF ~needsOwn
        THEN [handle |-> handle1, internal |-> internal, registry |-> registry1]
        ELSE IF texResource2 = NullResource /\ param.textureType # "Uv"
        THEN \* 421-423  return {}
             [handle |-> EmptyHandle, internal |-> internal,
              registry |-> registry1]
        ELSE LET texResource3 ==
                     IF texResource2 = NullResource THEN FallbackTexture(param)
                     ELSE texResource2
             IN  \* 440-443
                 WrapInOwnHandle(handle1, texResource3, internal, registry1)

\* --------------------------------------------------- new texture system
\* material.cpp:86-98
IsSupportedByNewTextureSystem(type) == type \in { "Uv", "Field", "Ptex" }

\* HdStResourceRegistry::AllocateTextureHandle: the handle is identified by
\* the key it was requested with.
AllocateTextureHandle(desc, usesBindlessTextures) ==
    [textureId |-> desc.textureId, type |-> desc.type,
     samplerParameters |-> desc.samplerParameters,
     bindless |-> usesBindlessTextures]

\* Requests every handle with the sampler parameters of the first descriptor.
RECURSIVE GetNamedTextureHandles_FirstSampler(_, _)
GetNamedTextureHandles_FirstSampler(descs, usesBindlessTextures) ==
    IF descs = <<>> THEN <<>>
    ELSE LET desc == Head(descs)
             rest == GetNamedTextureHandles_FirstSampler(
                         [i \in 1..(Len(descs) - 1) |->
                            [descs[i + 1] EXCEPT
                                !.samplerParameters = desc.samplerParameters]],
                         usesBindlessTextures)
         IN  IF IsSupportedByNewTextureSystem(desc.type)
             THEN <<[name |-> desc.name, type |-> desc.type,
                     handle |-> AllocateTextureHandle(desc,
                                                      usesBindlessTextures)]>>
                  \o rest
             ELSE rest
\* material.cpp:102-134
RECURSIVE GetNamedTextureHandles(_, _)
GetNamedTextureHandles(descs, usesBindlessTextures) ==
    IF descs = <<>> THEN <<>>
    ELSE LET desc == Head(descs)
             rest == GetNamedTextureHandles(Tail(descs), usesBindlessTextures)
         IN  IF IsSupportedByNewTextureSystem(desc.type)
             THEN <<[name |-> desc.name, type |-> desc.type,
                     handle |-> AllocateTextureHandle(desc,
                                                      usesBindlessTextures)]>>
                  \o rest
             ELSE rest

\* A buffer spec: name and tuple type.
BufferSpec(name, tupleType) == [name |-> name, tupleType |-> tupleType]
\* textureBinder.cpp:45
BindlessHandleTupleType == "UInt32Vec2x1"
DoubleMat4TupleType == "DoubleMat4x1"
\* Token concatenation name.GetString() + suffix, on names as sequences of parts.
Suffixed(name, suffix) == <<name, suffix>>
Plain(name) == <<name, "">>

\* Leaves out the Ptex layout entry.
BufferSpecsOf_NoLayout(texture, usesBindlessTextures) ==
    CASE texture.type \in { "Uv", "Ptex" } ->
           IF usesBindlessTextures
           THEN <<BufferSpec(Plain(texture.name), BindlessHandleTupleType)>>
           ELSE <<>>
      [] texture.type = "Field" ->
           (IF usesBindlessTextures
            THEN <<BufferSpec(Plain(texture.name), BindlessHandleTupleType)>>
            ELSE <<>>)
           \o <<BufferSpec(Suffixed(texture.name, "SamplingTransform"),
                           DoubleMat4TupleType)>>
      [] OTHER -> <<>>
\* Adds the sampling transform of a field in bindless mode only.
BufferSpecsOf_TransformBindlessOnly(texture, usesBindlessTextures) ==
    CASE texture.type \in { "Uv", "Field" } /\ ~usesBindlessTextures -> <<>>
      [] texture.type = "Uv" ->
           <<BufferSpec(Plain(texture.name), BindlessHandleTupleType)>>
      [] texture.type = "Field" ->
           <<BufferSpec(Plain(texture.name), BindlessHandleTupleType),
             BufferSpec(Suffixed(texture.name, "SamplingTransform"),
                        DoubleMat4TupleType)>>
      [] texture.type = "Ptex" ->
           IF usesBindlessTextures
           THEN <<BufferSpec(Plain(texture.name), BindlessHandleTupleType),
                  BufferSpec(Suffixed(texture.name, "_layout"),
                             BindlessHandleTupleType)>>
           ELSE <<>>
      [] OTHER -> <<>>
\* textureBinder.cpp:47-85, the specs appended for one texture.
BufferSpecsOf(texture, usesBindlessTextures) ==
    CASE texture.type = "Uv" ->
           IF usesBindlessTextures
           THEN <<BufferSpec(Plain(texture.name), BindlessHandleTupleType)>>
           ELSE <<>>
      [] texture.type = "Field" ->
           (IF usesBindlessTextures
            THEN <<BufferSpec(Plain(texture.name), BindlessHandleTupleType)>>
            ELSE <<>>)
           \o <<BufferSpec(Suffixed(texture.name, "SamplingTransform"),
                           DoubleMat4TupleType)>>
      [] texture.type = "Ptex" ->
           IF usesBindlessTextures
           THEN <<BufferSpec(Plain(texture.name), BindlessHandleTupleType),
                  BufferSpec(Suffixed(texture.name, "_layout"),
                             BindlessHandleTupleType)>>
           ELSE <<>>
      [] OTHER -> <<>>

\* Puts the entries of each texture in front of the vector.
RECURSIVE GetBufferSpecs_InFront(_, _, _)
GetBufferSpecs_InFront(textures, usesBindlessTextures, specs) ==
    IF textures = <<>> THEN specs
    ELSE GetBufferSpecs_InFront(Tail(textures), usesBindlessTextures,
                                BufferSpecsOf(Head(textures),
                                              usesBindlessTextures) \o specs)
\* textureBinder.cpp:47-85  HdSt_TextureBinder::GetBufferSpecs
RECURSIVE GetBufferSpecs(_, _, _)
GetBufferSpecs(textures, usesBindlessTextures, specs) ==
    IF textures = <<>> THEN specs
    ELSE GetBufferSpecs(Tail(textures), usesBindlessTextures,
                        specs \o BufferSpecsOf(Head(textures),
                                               usesBindlessTextures))

\* ------------------------------------------------- fallback glslfx objects
\* material.cpp:62  HioGlslfx *HdStMaterial::_fallbackGlslfx = nullptr;
Nullptr == 0

\* What new HioGlslfx(HdStPackageFallbackSurfaceShader()) may produce: an
\* invalid object (the load failed: no source, no metadata) or a valid one.
Glslfx(valid, source, metadata) ==
    [valid |-> valid, surfaceSource |-> source, metadata |-> metadata]
InvalidGlslfx == Glslfx(FALSE, "", MetaAbsent)
GlslfxLoads == { InvalidGlslfx, Glslfx(TRUE, "FB", MetaTrue) }

\* ---------------------------------------------- material network resource
\* The VtValue of GetMaterialResource and, when it holds a usable network,
\* what ProcessMaterialNetwork makes of it.
NetworkOutput(frag, geom, metadata, tag, params, descs) ==
    [fragmentSource |-> frag, geometrySource |-> geom, metadata |-> metadata,
     materialTag |-> tag, params |-> params, textureDescriptors |-> descs]
NoOutput == NetworkOutput("", "", MetaAbsent, DefaultMaterialTag, <<>>, <<>>)

\* The VtValue: whether it holds an HdMaterialNetworkMap, whether the map's
\* terminals and nodes are empty, and what ProcessMaterialNetwork returns for it.
MaterialResource(holds, noTerminals, noNodes, net) ==
    [holdsNetworkMap |-> holds, terminalsEmpty |-> noTerminals,
     mapEmpty |-> noNodes, net |-> net]
\* What processing a network without terminals or without nodes would return.
StrayOutput ==
    NetworkOutput("F1", "G1", MetaTrue, "translucent",
                  <<MakeParam("Fallback", "roughness", "Uv", "", "v0")>>, <<>>)
InvalidResources ==
    { MaterialResource(FALSE, TRUE, TRUE, NoOutput),
      MaterialResource(TRUE, TRUE, FALSE, StrayOutput),
      MaterialResource(TRUE, FALSE, TRUE, StrayOutput) }

\* The texture descriptors the network processor reports for a parameter list:
\* one per texture parameter.
RECURSIVE TextureDescriptorsOf(_)
TextureDescriptorsOf(params) ==
    IF params = <<>> THEN <<>>
    ELSE LET param == Head(params)
             rest == TextureDescriptorsOf(Tail(params))
         IN  IF IsTexture(param)
             THEN <<[name |-> param.name, type |-> param.textureType,
                     textureId |-> param.name, samplerParameters |-> "s0",
                     memoryRequest |-> 0]>> \o rest
             ELSE rest

\* Every combination of sources and tag; for one fragment source every
\* combination of geometry source, metadata, tag and parameter list; and the
\* list of four textures with either geometry source.
NetworkOutputs ==
    { NetworkOutput(f, g, MetaAbsent, t, <<>>, <<>>) :
        f \in FragmentSources, g \in GeometrySources, t \in MaterialTags }
    \cup
    { NetworkOutput("F1", g, md, t, ps, TextureDescriptorsOf(ps)) :
        g \in GeometrySources, md \in Metadatas, t \in MaterialTags,
        ps \in ParamLists }
    \cup
    { NetworkOutput("F2", g, MetaAbsent, DefaultMaterialTag, TextureParams,
                    TextureDescriptorsOf(TextureParams)) :
        g \in GeometrySources }
Resources ==
    InvalidResources
    \cup { MaterialResource(TRUE, FALSE, FALSE, n) : n \in NetworkOutputs }

RECURSIVE HasConnection(_)
HasConnection(params) ==
    params # <<>> /\ (Head(params).connection # "" \/ HasConnection(Tail(params)))

\* ------------------------------------------------------ HdStSurfaceShader
\* The members Sync writes; synced says that the last writer of the object was a
\* dirty pass of the material holding it (FALSE for a shader fresh from its
\* constructor or handed in through SetSurfaceShader).
NewSurfaceShader ==
    [fragmentSource |-> "", geometrySource |-> "",
     materialTag |-> DefaultMaterialTag, params |-> <<>>,
     textureDescriptors |-> <<>>, namedTextureHandles |-> <<>>,
     bufferSpecs |-> <<>>, synced |-> FALSE]
SetFragmentSource(sh, source) == [sh EXCEPT !.fragmentSource = source]
SetGeometrySource(sh, source) == [sh EXCEPT !.geometrySource = source]
SetMaterialTag(sh, tag) == [sh EXCEPT !.materialTag = tag]
SetParams(sh, params) == [sh EXCEPT !.params = params]
SetTextureDescriptors(sh, descs) == [sh EXCEPT !.textureDescriptors = descs]
SetNamedTextureHandles(sh, handles) == [sh EXCEPT !.namedTextureHandles = handles]
SetBufferSources(sh, specs) == [sh EXCEPT !.bufferSpecs = specs]
GetSource(sh, shaderStageKey) ==
    CASE shaderStageKey = "fragmentShader" -> sh.fragmentSource
      [] shaderStageKey = "geometryShader" -> sh.geometrySource
      [] OTHER -> ""

\* The shaders SetSurfaceShader may install: one that displaces.
ForeignShaders ==
    { [NewSurfaceShader EXCEPT !.fragmentSource = "F1", !.geometrySource = "G1"] }

\* --------------------------------------------------------------- state
VARIABLES
    mat,                \* per material: the HdStMaterial members
    shader,             \* per material: the object _surfaceShader points to
    dirtyBits,          \* per material: *dirtyBits as the last Sync left it
    fallbackGlslfx,     \* the static HdStMaterial::_fallbackGlslfx
    glslfxHeap,         \* every HioGlslfx constructed so far, in order
    textureHandles,     \* the registry's shared legacy handles, per connection
    settings,           \* HDST_USE_NEW_TEXTURE_SYSTEM and the bindless capability
    pc,                 \* per material: where its running Sync stands
    frame,              \* per material: the locals of its running Sync
    lastSynced,         \* per material: what its last dirty pass worked from
    pass,               \* the last operation and the calls it made
    call,               \* the last call of a helper or of the texture binder
    device,             \* the GL texture and sampler bindings
    primvar             \* the UsdImagingDataSourcePrimvar last constructed

vars == <<mat, shader, dirtyBits, fallbackGlslfx, glslfxHeap, textureHandles,
          settings, pc, frame, lastSynced, pass, call, device, primvar>>

\* material.cpp:65-76
NewMaterial ==
    [isInitialized |-> FALSE, hasPtex |-> FALSE,
     hasLimitSurfaceEvaluation |-> FALSE, hasDisplacement |-> FALSE,
     materialTag |-> DefaultMaterialTag, internalTextureResourceHandles |-> <<>>]

\* ------------------------------------------------------------- Sync, parts
\* Processes a network that has terminals or nodes.
IsUsableNetwork_Either(res) ==
    res.holdsNetworkMap /\ (~res.terminalsEmpty \/ ~res.mapEmpty)
\* material.cpp:171-174
IsUsableNetwork(res) ==
    res.holdsNetworkMap /\ ~res.terminalsEmpty /\ ~res.mapEmpty

\* material.cpp:163-185: the locals after the network has been looked at.
ProcessedLocals(materialTag, res, useNewTextureSystem) ==
    IF IsUsableNetwork(res)
    THEN [fragmentSource |-> res.net.fragmentSource,
          geometrySource |-> res.net.geometrySource,
          metadata |-> res.net.metadata,
          materialTag |-> res.net.materialTag,
          params |-> res.net.params,
          textureDescriptors |->
              IF useNewTextureSystem THEN res.net.textureDescriptors ELSE <<>>]
    ELSE [fragmentSource |-> "", geometrySource |-> "", metadata |-> MetaAbsent,
          materialTag |-> materialTag, params |-> <<>>,
          textureDescriptors |-> <<>>]

\* material.cpp:187
NeedsFallbackShader(loc) == loc.fragmentSource = "" /\ loc.geometrySource = ""

\* material.cpp:486-502, run without interruption: the pointer and the heap
\* after the call, load being what new HioGlslfx(filePath) yields.
InitFallbackShader(ptr, heap, load) ==
    IF ptr # Nullptr THEN [ptr |-> ptr, heap |-> heap]
    ELSE [ptr |-> Len(heap) + 1, heap |-> Append(heap, load)]

\* material.cpp:189-193: the locals once the fallback shader g replaced them.
WithFallbackShader(loc, g) ==
    [loc EXCEPT !.fragmentSource = g.surfaceSource,
                !.geometrySource = "",
                !.metadata = g.metadata]

\* Compares the old fragment source with the new geometry source.
MarkBatchesDirtyCalls_CrossCompare(isInitialized, memberTag, materialTag, oldFragmentSource, fragmentSource, oldGeometrySource, geometrySource) ==
    IF isInitialized
       /\ (memberTag # materialTag \/ oldFragmentSource # geometrySource
           \/ oldGeometrySource # geometrySource)
    THEN 1 ELSE 0
\* material.cpp:226-249: the number of MarkBatchesDirty calls, given the
\* values the comparisons read.
MarkBatchesDirtyCalls(isInitialized, memberTag, materialTag, oldFragmentSource, fragmentSource, oldGeometrySource, geometrySource) ==
    IF isInitialized
       /\ (memberTag # materialTag \/ oldFragmentSource # fragmentSource
           \/ oldGeometrySource # geometrySource)
    THEN 1 ELSE 0

BoolCount(b) == IF b THEN 1 ELSE 0
\* Invalidates at every changed value instead of once at the end.
MarkAllRprimsDirtyCalls_PerChange(isInitialized, dispChanged, lseChanged, tagChanged, ptexChanged) ==
    IF isInitialized
    THEN BoolCount(dispChanged) + BoolCount(lseChanged) + BoolCount(tagChanged)
         + BoolCount(ptexChanged)
    ELSE 0
\* Lets a change of the material tag go without invalidation.
MarkAllRprimsDirtyCalls_FlagsOnly(isInitialized, dispChanged, lseChanged, tagChanged, ptexChanged) ==
    IF (dispChanged \/ lseChanged \/ ptexChanged) /\ isInitialized THEN 1 ELSE 0
\* material.cpp:201-218, 309-324: needsRprimMaterialStateUpdate collects the
\* four changes; the number of MarkAllRprimsDirty(DirtyMaterialId) calls.
MarkAllRprimsDirtyCalls(isInitialized, dispChanged, lseChanged, tagChanged, ptexChanged) ==
    LET needsRprimMaterialStateUpdate ==
            dispChanged \/ lseChanged \/ tagChanged \/ ptexChanged
    IN  IF needsRprimMaterialStateUpdate /\ isInitialized THEN 1 ELSE 0

\* Decides by the toggle alone.
UsesOldTextureSystem_ToggleOnly(useNewTextureSystem, textureType) ==
    ~useNewTextureSystem
\* material.cpp:279-280
UsesOldTextureSystem(useNewTextureSystem, textureType) ==
    ~(useNewTextureSystem /\ IsSupportedByNewTextureSystem(textureType))

\* HdStSurfaceShader::AddFallbackValueToSpecsAndSources: one spec per parameter.
AddFallbackValueToSpecs(param, specs) ==
    Append(specs, BufferSpec(Plain(param.name), "fallbackValue"))
\* HdSt_MaterialBufferSourceAndTextureHelper::ProcessTextureMaterialParam: one
\* old-style texture descriptor per resolved parameter.
ProcessTextureMaterialParam(param, handle, descs) ==
    Append(descs, [name |-> param.name, type |-> param.textureType,
                   handle |-> handle])

\* Counts a Ptex type on any kind of parameter.
SeesPtex_AnyKind(param) == param.textureType = "Ptex"
\* material.cpp:270-273
SeesPtex(param) == IsTexture(param) /\ param.textureType = "Ptex"

\* Keeps the handles of the previous pass.
ClearedHandles_Kept(handles) == handles
\* material.cpp:257  _internalTextureResourceHandles.clear()
ClearedHandles(handles) == <<>>

\* material.cpp:265-289: the parameter loop.  acc holds specs, the old-style
\* texture descriptors, hasPtex, the internal handles and the shared handles.
RECURSIVE ParamLoop(_, _, _, _)
ParamLoop(params, useNewTextureSystem, env, acc) ==
    IF params = <<>> THEN acc
    ELSE
      LET param == Head(params)
          acc1 == [acc EXCEPT !.hasPtex = @ \/ SeesPtex(param)]
          acc2 ==
            IF IsPrimvarRedirect(param) \/ IsFallback(param)
            THEN [acc1 EXCEPT !.specs = AddFallbackValueToSpecs(param, @)]
            ELSE IF IsTexture(param)
                    /\ UsesOldTextureSystem(useNewTextureSystem, param.textureType)
            THEN LET r == GetTextureResourceHandle(param, env, acc1.internal,
                                                   acc1.registry)
                 IN  [acc1 EXCEPT
                        !.internal = r.internal,
                        !.registry = r.registry,
                        !.textureResourceDescriptors =
                            ProcessTextureMaterialParam(param, r.handle, @)]
            ELSE acc1
      IN  ParamLoop(Tail(params), useNewTextureSystem, env, acc2)

\* material.cpp:196-326: everything after the fallback decision.  m0 and sh0
\* are the members and the shader on entry, loc the locals, registry the shared
\* handles; the result holds them on return and the change-tracker calls made.
SyncTail(m0, sh0, registry, st, loc, env) ==
    LET fragmentSource == loc.fragmentSource
        geometrySource == loc.geometrySource
        \* 196-197
        sh1 == SetGeometrySource(SetFragmentSource(sh0, fragmentSource),
                                 geometrySource)
        \* 199-204
        hasDisplacement == geometrySource # ""
        dispChanged == m0.hasDisplacement # hasDisplacement
        \* 206-212
        hasLimitSurfaceEvaluation == GetHasLimitSurfaceEvaluation(loc.metadata)
        lseChanged == m0.hasLimitSurfaceEvaluation # hasLimitSurfaceEvaluation
        \* 214-218
        tagChanged == m0.materialTag # loc.materialTag
        m1 == [m0 EXCEPT !.hasDisplacement = hasDisplacement,
                         !.hasLimitSurfaceEvaluation = hasLimitSurfaceEvaluation,
                         !.materialTag = loc.materialTag]
        sh2 == IF tagChanged THEN SetMaterialTag(sh1, m1.materialTag) ELSE sh1
        \* 226-249: reads _materialTag and the shader's sources as they are now
        batches == MarkBatchesDirtyCalls(
                       m1.isInitialized, m1.materialTag, loc.materialTag,
                       GetSource(sh2, "fragmentShader"), fragmentSource,
                       GetSource(sh2, "geometryShader"), geometrySource)
        \* 254-257
        sh3 == SetParams(sh2, loc.params)
        \* 259-289
        looped == ParamLoop(loc.params, st.useNewTextureSystem, env,
                            [specs |-> <<>>, textureResourceDescriptors |-> <<>>,
                             hasPtex |-> FALSE,
                             internal |->
                                 ClearedHandles(m1.internalTextureResourceHandles),
                             registry |-> registry])
        \* 291
        sh4 == SetTextureDescriptors(sh3, looped.textureResourceDescriptors)
        \* 293-305
        textures == GetNamedTextureHandles(loc.textureDescriptors,
                                           st.bindlessTextureEnabled)
        sh5 == IF st.useNewTextureSystem
               THEN SetNamedTextureHandles(sh4, textures) ELSE sh4
        specs == IF st.useNewTextureSystem
                 THEN GetBufferSpecs(textures, st.bindlessTextureEnabled,
                                     looped.specs)
                 ELSE looped.specs
        \* 307
        sh6 == SetBufferSources(sh5, specs)
        \* 309-312
        ptexChanged == m1.hasPtex # looped.hasPtex
        \* 315-324
        rprims == MarkAllRprimsDirtyCalls(m1.isInitialized, dispChanged,
                                          lseChanged, tagChanged, ptexChanged)
        \* 326
        m2 == [m1 EXCEPT !.hasPtex = looped.hasPtex,
                         !.internalTextureResourceHandles = looped.internal,
                         !.isInitialized = TRUE]
    IN  [mat |-> m2, shader |-> [sh6 EXCEPT !.synced = TRUE],
         registry |-> looped.registry,
         markBatchesDirty |-> batches, markAllRprimsDirty |-> rprims,
         flagsChanged |-> BoolCount(dispChanged) + BoolCount(lseChanged)
                          + BoolCount(ptexChanged)]

\* --------------------------------------------------------------- actions
\* The last operation: which, on which material, whether the mask it was given
\* had DirtyResource or DirtyParams set (maskDirty), whether the full pass ran,
\* what it observed on entry (metaHoldsTrue: the metadata it used holds the
\* boolean true under limitSurfaceEvaluation) and what it called on the change
\* tracker.
NoPass ==
    [op |-> "none", m |-> Primary, maskDirty |-> FALSE, ran |-> FALSE,
     wasInitialized |-> FALSE, shaderWasSynced |-> FALSE, usable |-> FALSE,
     glslfx |-> Nullptr, metaHoldsTrue |-> FALSE,
     tagDiffers |-> FALSE, sourceDiffers |-> FALSE, flagsChanged |-> 0,
     markBatchesDirty |-> 0, markAllRprimsDirty |-> 0]

\* Before the first dirty pass.
NeverSynced == [metaHoldsTrue |-> FALSE, params |-> <<>>]

\* The claims' notion of a usable resource: a network map with terminals and
\* nodes.
IsNetworkWithTerminalsAndNodes(res) ==
    res.holdsNetworkMap /\ ~res.terminalsEmpty /\ ~res.mapEmpty

\* Leaves the mask as it was.
FastPathBits_Unchanged(bits) == bits
\* material.cpp:154  *dirtyBits = Clean
FastPathBits(bits) == Clean

NoFrame ==
    [bits |-> Clean, usable |-> FALSE, loc |-> NoOutput, env |-> NoTexEnv,
     source |-> "", glslfx |-> Nullptr]

\* material.cpp:153-156: the mask has neither DirtyResource nor DirtyParams.
SyncClean(m, bits) ==
    /\ dirtyBits' = [dirtyBits EXCEPT ![m] = FastPathBits(bits)]
    /\ pass' = [NoPass EXCEPT !.op = "Sync", !.m = m,
                              !.maskDirty = bits \cap AllDirty # {},
                              !.wasInitialized = mat[m].isInitialized,
                              !.shaderWasSynced = shader[m].synced]
    /\ UNCHANGED <<mat, shader, fallbackGlslfx, glslfxHeap, textureHandles,
                   settings, pc, frame, lastSynced, call, device, primvar>>

\* material.cpp:196-328 on material m with the final locals loc; ptr is the
\* fallback object the pass read (Nullptr when it read none).
SyncFinish(m, bits, usable, loc, env, ptr) ==
    \E r \in { SyncTail(mat[m], shader[m], textureHandles, settings, loc, env) } :
        /\ mat' = [mat EXCEPT ![m] = r.mat]
        /\ shader' = [shader EXCEPT ![m] = r.shader]
        /\ textureHandles' = r.registry
        /\ dirtyBits' = [dirtyBits EXCEPT ![m] = Clean]
        /\ lastSynced' = [lastSynced EXCEPT ![m] =
                            [metaHoldsTrue |-> loc.metadata = MetaTrue,
                             params |-> loc.params]]
        /\ pass' = [op |-> "Sync", m |-> m,
                    maskDirty |-> bits \cap AllDirty # {}, ran |-> TRUE,
                    wasInitialized |-> mat[m].isInitialized,
                    shaderWasSynced |-> shader[m].synced,
                    usable |-> usable,
                    glslfx |-> ptr,
                    metaHoldsTrue |-> loc.metadata = MetaTrue,
                    tagDiffers |-> mat[m].materialTag # loc.materialTag,
                    sourceDiffers |->
                        \/ shader[m].fragmentSource # loc.fragmentSource
                        \/ shader[m].geometrySource # loc.geometrySource,
                    flagsChanged |-> r.flagsChanged,
                    markBatchesDirty |-> r.markBatchesDirty,
                    markAllRprimsDirty |-> r.markAllRprimsDirty]
        /\ UNCHANGED <<call, device, primvar>>

\* A dirty pass (material.cpp:158-328) from ress and envs, as one step.
SyncDirty(m, bits, ress, envs) ==
    \E res \in ress :
      \E loc \in { ProcessedLocals(mat[m].materialTag, res,
                                   settings.useNewTextureSystem) } :
        \E env \in (IF HasConnection(loc.params) THEN envs ELSE { NoTexEnv }) :
          IF NeedsFallbackShader(loc)
          THEN \E load \in (IF fallbackGlslfx = Nullptr THEN GlslfxLoads
                            ELSE { InvalidGlslfx }) :
                 \E fb \in { InitFallbackShader(fallbackGlslfx, glslfxHeap,
                                                load) } :
                     /\ fallbackGlslfx' = fb.ptr
                     /\ glslfxHeap' = fb.heap
                     /\ SyncFinish(m, bits, IsNetworkWithTerminalsAndNodes(res),
                                   WithFallbackShader(loc, fb.heap[fb.ptr]),
                                   env, fb.ptr)
          ELSE /\ SyncFinish(m, bits, IsNetworkWithTerminalsAndNodes(res), loc, env,
                            Nullptr)
               /\ UNCHANGED <<fallbackGlslfx, glslfxHeap>>

\* material.cpp:136-328  HdStMaterial::Sync, run without interruption.
Sync(m) ==
    /\ pc[m] = "idle"
    /\ \E bits \in DirtyBitsValues :
         IF ~IsDirty(bits)
         THEN SyncClean(m, bits)
         ELSE /\ SyncDirty(m, bits, Resources, SpecTexEnvs)
              /\ UNCHANGED <<settings, pc, frame>>

\* material.cpp:480-484
SetSurfaceShader(m) ==
    /\ pc[m] = "idle"
    /\ \E shaderCode \in ForeignShaders :
         shader' = [shader EXCEPT ![m] = shaderCode]
    /\ pass' = [NoPass EXCEPT !.op = "SetSurfaceShader", !.m = m]
    /\ UNCHANGED <<mat, dirtyBits, fallbackGlslfx, glslfxHeap, textureHandles,
                   settings, pc, frame, lastSynced, call, device, primvar>>

\* material.cpp:466-472: clears the network processor's cached glslfx and
\* reloads the shader, whose sources are managed by Sync.
Reload(m) ==
    /\ pc[m] = "idle"
    /\ pass' = [NoPass EXCEPT !.op = "Reload", !.m = m]
    /\ UNCHANGED <<mat, shader, dirtyBits, fallbackGlslfx, glslfxHeap,
                   textureHandles, settings, pc, frame, lastSynced, call, device, primvar>>

\* material.cpp:53 and textureBinder.cpp:40-43: the old texture system without
\* bindless textures (the default), or the new one with them.
SpecSettings ==
    { [useNewTextureSystem |-> FALSE, bindlessTextureEnabled |-> FALSE],
      [useNewTextureSystem |-> TRUE, bindlessTextureEnabled |-> TRUE] }

\* ------------------------------------------------------------ GL device
\* The names the resource binder has a binding for, in the order of their
\* texture units: GetBinding(name).GetTextureUnit() is the index in this list.
BoundNames ==
    << Plain("a"), Plain("b"), Plain("f"), Plain("p"), Suffixed("p", "_layout"),
       Plain("u") >>
TextureUnits == 0..Len(BoundNames)
GetTextureUnit(name) ==
    CHOOSE unit \in 1..Len(BoundNames) : BoundNames[unit] = name
Targets ==
    { "GL_TEXTURE_2D", "GL_TEXTURE_3D", "GL_TEXTURE_2D_ARRAY", "GL_TEXTURE_BUFFER" }

\* No UsdImagingDataSourcePrimvar was constructed yet.
NoPrimvar == [constructed |-> FALSE]

\* The context before any call: unit GL_TEXTURE0 active, nothing bound.
NoDevice ==
    [activeTexture |-> 0,
     textures |-> [b \in TextureUnits \X Targets |-> 0],
     samplers |-> [unit \in TextureUnits |-> 0]]

\* No helper and no binder function has been called yet.
NoCall == [op |-> "none"]

\* material.cpp:458-463: a new material starts with AllDirty.
GetInitialDirtyBitsMask == AllDirty

Init ==
    /\ mat = [m \in Materials |-> NewMaterial]
    /\ shader = [m \in Materials |-> NewSurfaceShader]
    /\ dirtyBits = [m \in Materials |-> GetInitialDirtyBitsMask]
    /\ fallbackGlslfx = Nullptr
    /\ glslfxHeap = <<>>
    /\ textureHandles = [c \in Connections |-> NullResource]
    /\ settings \in SpecSettings
    /\ pc = [m \in Materials |-> "idle"]
    /\ frame = [m \in Materials |-> NoFrame]
    /\ lastSynced = [m \in Materials |-> NeverSynced]
    /\ pass = NoPass
    /\ call = NoCall
    /\ device = NoDevice
    /\ primvar = NoPrimvar

Next ==
    \/ Sync(Primary)
    \/ SetSurfaceShader(Primary)
    \/ Reload(Primary)

Spec == Init /\ [][Next]_vars

\* ------------------------------------------------- Sync, step by step
\* The resources of SpecConc: the unusable ones and one usable network.
ConcResources ==
    InvalidResources
    \cup { MaterialResource(TRUE, FALSE, FALSE,
               NetworkOutput("F1", "G1", MetaAbsent, "translucent", <<>>, <<>>)) }

\* material.cpp:138-188: Sync up to the call of _InitFallbackShader; a pass that
\* needs no fallback shader touches no static and completes in this step.
SyncBegin(m) ==
    /\ pc[m] = "idle"
    /\ \E bits \in DirtyBitsValues :
         IF ~IsDirty(bits)
         THEN SyncClean(m, bits)
         ELSE \E res \in ConcResources :
              \E loc \in { ProcessedLocals(mat[m].materialTag, res,
                                           settings.useNewTextureSystem) } :
                IF NeedsFallbackShader(loc)
                THEN /\ pc' = [pc EXCEPT ![m] = "initCheck"]
                     /\ frame' = [frame EXCEPT ![m] =
                                    [bits |-> bits,
                                     usable |-> IsNetworkWithTerminalsAndNodes(res),
                                     loc |-> loc, env |-> NoTexEnv,
                                     source |-> "", glslfx |-> Nullptr]]
                     /\ pass' = [NoPass EXCEPT !.op = "SyncBegin", !.m = m]
                     /\ UNCHANGED <<mat, shader, dirtyBits, fallbackGlslfx,
                                    glslfxHeap, textureHandles, settings,
                                    lastSynced, call, device, primvar>>
                ELSE /\ SyncFinish(m, bits, IsNetworkWithTerminalsAndNodes(res), loc, NoTexEnv,
                                   Nullptr)
                     /\ UNCHANGED <<fallbackGlslfx, glslfxHeap, settings, pc,
                                    frame>>

\* material.cpp:489-491: the test of the static pointer.
InitFallbackShaderCheck(m) ==
    /\ pc[m] = "initCheck"
    /\ pc' = [pc EXCEPT ![m] = IF fallbackGlslfx # Nullptr THEN "readSource"
                               ELSE "initLoad"]
    /\ pass' = [NoPass EXCEPT !.op = "InitFallbackShaderCheck", !.m = m]
    /\ UNCHANGED <<mat, shader, dirtyBits, fallbackGlslfx, glslfxHeap,
                   textureHandles, settings, frame, lastSynced, call, device, primvar>>

\* material.cpp:493-501: the construction and the store to the static pointer;
\* a failed load only raises TF_VERIFY's warning.
InitFallbackShaderLoad(m) ==
    /\ pc[m] = "initLoad"
    /\ \E load \in GlslfxLoads :
         /\ glslfxHeap' = Append(glslfxHeap, load)
         /\ fallbackGlslfx' = Len(glslfxHeap) + 1
    /\ pc' = [pc EXCEPT ![m] = "readSource"]
    /\ pass' = [NoPass EXCEPT !.op = "InitFallbackShaderLoad", !.m = m]
    /\ UNCHANGED <<mat, shader, dirtyBits, textureHandles, settings, frame,
                   lastSynced, call, device, primvar>>

\* material.cpp:189: fragmentSource = _fallbackGlslfx->GetSurfaceSource().
\* frame[m].glslfx keeps the object read, also after the pass has returned.
SyncReadFallbackSource(m) ==
    /\ pc[m] = "readSource"
    /\ frame' = [frame EXCEPT ![m].source = glslfxHeap[fallbackGlslfx].surfaceSource,
                              ![m].glslfx = fallbackGlslfx]
    /\ pc' = [pc EXCEPT ![m] = "readMetadata"]
    /\ pass' = [NoPass EXCEPT !.op = "SyncReadFallbackSource", !.m = m]
    /\ UNCHANGED <<mat, shader, dirtyBits, fallbackGlslfx, glslfxHeap,
                   textureHandles, settings, lastSynced, call, device, primvar>>

\* material.cpp:192-328: materialMetadata = _fallbackGlslfx->GetMetadata() and
\* the rest of the pass.
SyncEnd(m) ==
    /\ pc[m] = "readMetadata"
    /\ SyncFinish(m, frame[m].bits, frame[m].usable,
                  [frame[m].loc EXCEPT
                      !.fragmentSource = frame[m].source,
                      !.geometrySource = "",
                      !.metadata = glslfxHeap[fallbackGlslfx].metadata],
                  frame[m].env, frame[m].glslfx)
    /\ pc' = [pc EXCEPT ![m] = "idle"]
    /\ frame' = [frame EXCEPT ![m] = [NoFrame EXCEPT !.glslfx = frame[m].glslfx]]
    /\ UNCHANGED <<fallbackGlslfx, glslfxHeap, settings>>

NextConc ==
    \E m \in Materials :
        \/ SyncBegin(m)
        \/ InitFallbackShaderCheck(m)
        \/ InitFallbackShaderLoad(m)
        \/ SyncReadFallbackSource(m)
        \/ SyncEnd(m)

SpecConc == Init /\ [][NextConc]_vars

\* ------------------------------------- _GetTextureResourceHandle, by itself
\* The Texture parameters a call may be given: every texture type, unconnected
\* or connected, with either fallback value.
TextureParamValues ==
    { MakeParam("Texture", "t", type, conn, fb) :
        type \in TextureTypes, conn \in {""} \cup Connections, fb \in {"v0", "v1"} }

\* material.cpp:330-447 called on a material that holds no internal handle,
\* against the registry as the calls before left it.
ResolveTexture ==
    \E param \in TextureParamValues :
      \E env \in (IF param.connection = "" THEN { NoTexEnv } ELSE AllTexEnvs) :
        \E r \in { GetTextureResourceHandle(param, env, <<>>, textureHandles) } :
            /\ call' = [op |-> "GetTextureResourceHandle", param |-> param,
                        env |-> env, registry |-> textureHandles,
                        handle |-> r.handle, internal |-> r.internal]
            /\ textureHandles' = r.registry
            /\ UNCHANGED <<mat, shader, dirtyBits, fallbackGlslfx, glslfxHeap,
                           settings, pc, frame, lastSynced, pass, device, primvar>>

\* As Init, with the registry holding a shared handle for a connection or not.
InitResolve ==
    /\ mat = [m \in Materials |-> NewMaterial]
    /\ shader = [m \in Materials |-> NewSurfaceShader]
    /\ dirtyBits = [m \in Materials |-> GetInitialDirtyBitsMask]
    /\ fallbackGlslfx = Nullptr
    /\ glslfxHeap = <<>>
    /\ textureHandles \in [Connections -> { AbsentHandle, NullResource }]
    /\ settings \in SpecSettings
    /\ pc = [m \in Materials |-> "idle"]
    /\ frame = [m \in Materials |-> NoFrame]
    /\ lastSynced = [m \in Materials |-> NeverSynced]
    /\ pass = NoPass
    /\ call = NoCall
    /\ device = NoDevice
    /\ primvar = NoPrimvar

NextResolve == ResolveTexture

SpecResolve == InitResolve /\ [][NextResolve]_vars

\* --------------------------------------------- the new texture system, by itself
\* A texture descriptor of the network processor.
TextureDescriptor(name, type, textureId, samplerParameters) ==
    [name |-> name, type |-> type, textureId |-> textureId,
     samplerParameters |-> samplerParameters, memoryRequest |-> 0]
BaseDescriptor == TextureDescriptor("n1", "Uv", "tA", "s0")
\* The base descriptor; one of the same key under another name; ones that
\* differ from it only in the sampler parameters, only in the type, only in the
\* texture; and one of an unsupported type.
TextureDescriptorValues ==
    { BaseDescriptor,
      TextureDescriptor("n2", "Uv", "tA", "s0"),
      TextureDescriptor("n3", "Uv", "tA", "s1"),
      TextureDescriptor("n4", "Ptex", "tA", "s0"),
      TextureDescriptor("n5", "Uv", "tB", "s0"),
      TextureDescriptor("n6", "Udim", "tA", "s0") }
\* No descriptor, one, or the base descriptor followed by one.
TextureDescriptorLists ==
    { <<>> } \cup { <<d>> : d \in TextureDescriptorValues }
             \cup { <<BaseDescriptor, d>> : d \in TextureDescriptorValues }

\* material.cpp:293-302 for material m: the handles of the descriptors of its
\* pass are allocated and stored in its shader.  frame[m].loc keeps the local
\* textureDescriptors.
SyncNamedTextureHandles(m) ==
    /\ settings.useNewTextureSystem
    /\ \E descs \in TextureDescriptorLists :
         /\ frame' = [frame EXCEPT ![m].loc.textureDescriptors = descs]
         /\ shader' = [shader EXCEPT ![m] =
                         SetNamedTextureHandles(
                             @, GetNamedTextureHandles(
                                    descs, settings.bindlessTextureEnabled))]
    /\ call' = [op |-> "GetNamedTextureHandles", m |-> m]
    /\ UNCHANGED <<mat, dirtyBits, fallbackGlslfx, glslfxHeap, textureHandles,
                   settings, pc, lastSynced, pass, device, primvar>>

\* As Init, with the new texture system on and bindless textures on or off.
InitHandles ==
    /\ mat = [m \in Materials |-> NewMaterial]
    /\ shader = [m \in Materials |-> NewSurfaceShader]
    /\ dirtyBits = [m \in Materials |-> GetInitialDirtyBitsMask]
    /\ fallbackGlslfx = Nullptr
    /\ glslfxHeap = <<>>
    /\ textureHandles = [c \in Connections |-> NullResource]
    /\ settings \in { [useNewTextureSystem |-> TRUE, bindlessTextureEnabled |-> b] :
                        b \in BOOLEAN }
    /\ pc = [m \in Materials |-> "idle"]
    /\ frame = [m \in Materials |-> NoFrame]
    /\ lastSynced = [m \in Materials |-> NeverSynced]
    /\ pass = NoPass
    /\ call = NoCall
    /\ device = NoDevice
    /\ primvar = NoPrimvar

NextHandles == \E m \in Materials : SyncNamedTextureHandles(m)

SpecHandles == InitHandles /\ [][NextHandles]_vars

\* ------------------------------------------------------ HdSt_TextureBinder
\* A NamedTextureHandle as the binder sees it: the declared name and type, the
\* dynamic types of the handle's texture and sampler object, the bindless
\* handles of the sampler (GetGLTextureSamplerHandle or GetTexelsGLTextureHandle,
\* GetLayoutGLTextureHandle), the GL names of the texture, of the Ptex layout
\* and of the sampler, whether the HgiTextureHandle of a Uv or Field texture
\* holds an HgiGLTexture (a zero bindless handle stands for a texture that was
\* not loaded: its HgiTextureHandle holds none), and the field's sampling
\* transform.
NamedTextureHandle(name, type, textureObject, samplerObject, handles, names) ==
    [name |-> name, type |-> type,
     textureObject |-> textureObject, samplerObject |-> samplerObject,
     bindlessHandle |-> handles[1], layoutBindlessHandle |-> handles[2],
     textureName |-> names[1], layoutTextureName |-> names[2],
     samplerName |-> names[3], isHgiGLTexture |-> handles[1] # 0,
     samplingTransform |-> "xf"]

UvTexture == NamedTextureHandle("a", "Uv", "Uv", "Uv", <<7, 0>>, <<11, 0, 21>>)
\* A Uv texture whose sampler has no bindless handle and whose GL texture is
\* missing.
UvTextureUnloaded ==
    NamedTextureHandle("a", "Uv", "Uv", "Uv", <<0, 0>>, <<17, 0, 21>>)
FieldTexture ==
    NamedTextureHandle("f", "Field", "Field", "Field", <<8, 0>>, <<12, 0, 22>>)
FieldTextureUnloaded ==
    NamedTextureHandle("f", "Field", "Field", "Field", <<0, 0>>, <<18, 0, 22>>)
PtexTexture ==
    NamedTextureHandle("p", "Ptex", "Ptex", "Ptex", <<9, 10>>, <<13, 14, 0>>)
UdimTexture ==
    NamedTextureHandle("u", "Udim", "Udim", "Udim", <<5, 0>>, <<15, 0, 25>>)
\* Declared Uv over a field texture object; declared Field with a Uv sampler.
MistypedTexture ==
    NamedTextureHandle("b", "Uv", "Field", "Uv", <<6, 0>>, <<16, 0, 26>>)
MistypedSampler ==
    NamedTextureHandle("b", "Field", "Field", "Uv", <<6, 0>>, <<16, 0, 26>>)

NamedTextureHandleValues ==
    { UvTexture, UvTextureUnloaded, FieldTexture, FieldTextureUnloaded,
      PtexTexture, UdimTexture,
      MistypedTexture, MistypedSampler }
\* No texture, each texture alone, and pairs in which a texture follows a good
\* or a faulty one.
NamedTextureHandleVectors ==
    { <<>> } \cup { <<t>> : t \in NamedTextureHandleValues }
    \cup { <<UdimTexture, UvTexture>>, <<MistypedTexture, FieldTexture>>,
           <<MistypedSampler, PtexTexture>>, <<UvTextureUnloaded, FieldTexture>>,
           <<UvTexture, PtexTexture>>, <<FieldTexture, UvTexture>>,
           <<PtexTexture, FieldTexture>> }

\* textureBinder.cpp:92-137: a bindless sampler buffer source.
BindlessSamplerBufferSource(name, value) ==
    [name |-> name, tupleType |-> BindlessHandleTupleType, value |-> value]
\* HdVtBufferSource of a GfMatrix4d value.
VtBufferSource(name, value) ==
    [name |-> name, tupleType |-> DoubleMat4TupleType, value |-> value]

\* Emits the handle before the sampling transform, and that one only in
\* bindless mode.
ComputeFieldBufferSources_BindlessOnly(texture, usesBindlessTextures) ==
    IF ~usesBindlessTextures THEN <<>>
    ELSE <<BindlessSamplerBufferSource(Plain(texture.name),
                                       texture.bindlessHandle),
           VtBufferSource(Suffixed(texture.name, "SamplingTransform"),
                          texture.samplingTransform)>>
\* textureBinder.cpp:157-176
ComputeFieldBufferSources(texture, usesBindlessTextures) ==
    <<VtBufferSource(Suffixed(texture.name, "SamplingTransform"),
                     texture.samplingTransform)>>
    \o (IF ~usesBindlessTextures THEN <<>>
        ELSE <<BindlessSamplerBufferSource(Plain(texture.name),
                                           texture.bindlessHandle)>>)
\* textureBinder.cpp:141-155
ComputeUvBufferSources(texture, usesBindlessTextures) ==
    IF ~usesBindlessTextures THEN <<>>
    ELSE <<BindlessSamplerBufferSource(Plain(texture.name),
                                       texture.bindlessHandle)>>
\* textureBinder.cpp:178-197
ComputePtexBufferSources(texture, usesBindlessTextures) ==
    IF ~usesBindlessTextures THEN <<>>
    ELSE <<BindlessSamplerBufferSource(Plain(texture.name),
                                       texture.bindlessHandle),
           BindlessSamplerBufferSource(Suffixed(texture.name, "_layout"),
                                       texture.layoutBindlessHandle)>>

\* textureBinder.cpp:283-311: the casts of _CastAndCompute succeed.
CastsSucceed(texture) ==
    texture.textureObject = texture.type /\ texture.samplerObject = texture.type
\* textureBinder.cpp:313-334: the declared type has a case in _Dispatch.
IsDispatched(texture) == texture.type \in { "Uv", "Field", "Ptex" }

\* Computes the sources by the declared type without the casts.
BufferSourcesOf_NoCast(texture, usesBindlessTextures) ==
    CASE texture.type = "Uv" ->
            ComputeUvBufferSources(texture, usesBindlessTextures)
      [] texture.type = "Field" ->
            ComputeFieldBufferSources(texture, usesBindlessTextures)
      [] texture.type = "Ptex" ->
            ComputePtexBufferSources(texture, usesBindlessTextures)
      [] OTHER -> <<>>
\* textureBinder.cpp:139-198 through _Dispatch (313-334): the sources of one
\* texture.
BufferSourcesOf(texture, usesBindlessTextures) ==
    IF ~(IsDispatched(texture) /\ CastsSucceed(texture)) THEN <<>>
    ELSE CASE texture.type = "Uv" ->
                ComputeUvBufferSources(texture, usesBindlessTextures)
           [] texture.type = "Field" ->
                ComputeFieldBufferSources(texture, usesBindlessTextures)
           [] texture.type = "Ptex" ->
                ComputePtexBufferSources(texture, usesBindlessTextures)

\* textureBinder.cpp:348-354 with the loop of 336-344
RECURSIVE ComputeBufferSources(_, _, _)
ComputeBufferSources(textures, usesBindlessTextures, sources) ==
    IF textures = <<>> THEN sources
    ELSE ComputeBufferSources(Tail(textures), usesBindlessTextures,
                              sources \o BufferSourcesOf(Head(textures),
                                                         usesBindlessTextures))

\* textureBinder.cpp:81-82: GetBufferSpecs reports the declared types it has no
\* case for; it never looks at the texture or sampler object.
RECURSIVE GetBufferSpecsErrors(_)
GetBufferSpecsErrors(textures) ==
    IF textures = <<>> THEN <<>>
    ELSE (IF Head(textures).type \in { "Uv", "Field", "Ptex" } THEN <<>>
          ELSE <<"Unsupported texture type">>)
         \o GetBufferSpecsErrors(Tail(textures))

\* textureBinder.cpp:100-103: the constructor of a bindless sampler buffer
\* source reports a zero handle; the source is constructed all the same.
RECURSIVE BindlessSamplerBufferSourceErrors(_)
BindlessSamplerBufferSourceErrors(sources) ==
    IF sources = <<>> THEN <<>>
    ELSE (IF Head(sources).tupleType = BindlessHandleTupleType
             /\ Head(sources).value = 0
          THEN <<"Invalid texture handle">> ELSE <<>>)
         \o BindlessSamplerBufferSourceErrors(Tail(sources))

\* textureBinder.cpp:296-306, 331-332: the error _Dispatch and _CastAndCompute
\* report for one texture.
DispatchErrorsOf(texture) ==
    IF ~IsDispatched(texture) THEN <<"Unsupported texture type">>
    ELSE IF texture.textureObject # texture.type THEN <<"Bad texture object">>
    ELSE IF texture.samplerObject # texture.type THEN <<"Bad sampler object">>
    ELSE <<>>

\* textureBinder.cpp:348-354: the errors of a ComputeBufferSources call, those
\* of the dispatch and those of the sources constructed.
RECURSIVE ComputeBufferSourcesErrors(_, _)
ComputeBufferSourcesErrors(textures, usesBindlessTextures) ==
    IF textures = <<>> THEN <<>>
    ELSE DispatchErrorsOf(Head(textures))
         \o BindlessSamplerBufferSourceErrors(
                BufferSourcesOf(Head(textures), usesBindlessTextures))
         \o ComputeBufferSourcesErrors(Tail(textures), usesBindlessTextures)

\* textureBinder.cpp:336-344: the errors of a dispatch over a list.
RECURSIVE DispatchErrors(_)
DispatchErrors(textures) ==
    IF textures = <<>> THEN <<>>
    ELSE DispatchErrorsOf(Head(textures)) \o DispatchErrors(Tail(textures))

\* textureBinder.cpp:356-378: in bindless mode BindResources and
\* UnbindResources return before the dispatch.
BindOrUnbindResourcesErrors(textures, usesBindlessTextures) ==
    IF usesBindlessTextures THEN <<>> ELSE DispatchErrors(textures)

\* The GL calls, on a context gl = [device, log]; log lists the calls made.
GlActiveTexture(gl, unit) ==
    [device |-> [gl.device EXCEPT !.activeTexture = unit],
     log |-> Append(gl.log, <<"glActiveTexture", unit>>)]
GlBindTexture(gl, target, texture) ==
    [device |-> [gl.device EXCEPT
                    !.textures[<<gl.device.activeTexture, target>>] = texture],
     log |-> Append(gl.log, <<"glBindTexture", gl.device.activeTexture, target,
                              texture>>)]
GlBindSampler(gl, unit, sampler) ==
    [device |-> [gl.device EXCEPT !.samplers[unit] = sampler],
     log |-> Append(gl.log, <<"glBindSampler", unit, sampler>>)]

\* textureBinder.cpp:208, 266, 273: a lookup in the resource binder.
GetBinding(gl, name) ==
    [device |-> gl.device, log |-> Append(gl.log, <<"GetBinding", name>>)]

\* HdStUvTextureObject::GetTexture, HdStFieldTextureObject::GetTexture: the
\* HgiTextureHandle of a texture object.
GetTexture(texture) ==
    [isHgiGLTexture |-> texture.isHgiGLTexture, textureId |-> texture.textureName]

\* Leaves the sampler bound when unbinding.
BindTexture_KeepsSampler(gl, target, textureHandle, glSamplerName, name, bind) ==
    LET samplerUnit == GetTextureUnit(name)
        gl1 == GlActiveTexture(GetBinding(gl, name), samplerUnit)
        gl2 == GlBindTexture(gl1, target,
                             IF bind /\ textureHandle.isHgiGLTexture
                             THEN textureHandle.textureId ELSE 0)
    IN  GlBindSampler(gl2, samplerUnit, glSamplerName)
\* textureBinder.cpp:200-223: glTex is null when unbinding and when the cast
\* of the handle's texture fails, and texture 0 is bound then.
BindTexture(gl, target, textureHandle, glSamplerName, name, bind) ==
    LET samplerUnit == GetTextureUnit(name)
        gl1 == GlActiveTexture(GetBinding(gl, name), samplerUnit)
        glTex == bind /\ textureHandle.isHgiGLTexture
        gl2 == GlBindTexture(gl1, target,
                             IF glTex THEN textureHandle.textureId ELSE 0)
    IN  GlBindSampler(gl2, samplerUnit, IF bind THEN glSamplerName ELSE 0)

\* textureBinder.cpp:259-280
BindPtex(gl, texture, bind) ==
    LET texelSamplerUnit == GetTextureUnit(Plain(texture.name))
        gl1 == GlActiveTexture(GetBinding(gl, Plain(texture.name)),
                               texelSamplerUnit)
        gl2 == GlBindTexture(gl1, "GL_TEXTURE_2D_ARRAY",
                             IF bind THEN texture.textureName ELSE 0)
        layoutSamplerUnit == GetTextureUnit(Suffixed(texture.name, "_layout"))
        gl3 == GlActiveTexture(
                   GetBinding(gl2, Suffixed(texture.name, "_layout")),
                   layoutSamplerUnit)
    IN  GlBindTexture(gl3, "GL_TEXTURE_BUFFER",
                      IF bind THEN texture.layoutTextureName ELSE 0)

\* Binds a field texture on the 2D target as well.
BindOne_SameTarget(gl, texture, bind) ==
    IF ~(IsDispatched(texture) /\ CastsSucceed(texture)) THEN gl
    ELSE IF texture.type = "Ptex" THEN BindPtex(gl, texture, bind)
    ELSE BindTexture(gl, "GL_TEXTURE_2D", GetTexture(texture),
                     texture.samplerName, Plain(texture.name), bind)
\* textureBinder.cpp:225-281 through _Dispatch (313-334), for one texture.
BindOne(gl, texture, bind) ==
    IF ~(IsDispatched(texture) /\ CastsSucceed(texture)) THEN gl
    ELSE CASE texture.type = "Uv" ->
                BindTexture(gl, "GL_TEXTURE_2D", GetTexture(texture),
                            texture.samplerName, Plain(texture.name), bind)
           [] texture.type = "Field" ->
                BindTexture(gl, "GL_TEXTURE_3D", GetTexture(texture),
                            texture.samplerName, Plain(texture.name), bind)
           [] texture.type = "Ptex" -> BindPtex(gl, texture, bind)

\* textureBinder.cpp:336-344 with _BindFunctor
RECURSIVE DispatchBind(_, _, _)
DispatchBind(gl, textures, bind) ==
    IF textures = <<>> THEN gl
    ELSE DispatchBind(BindOne(gl, Head(textures), bind), Tail(textures), bind)

\* Dispatches in bindless mode too.
BindOrUnbindResources_AlwaysDispatch(gl, textures, usesBindlessTextures, bind) ==
    DispatchBind(gl, textures, bind)
\* textureBinder.cpp:356-378: BindResources (bind) and UnbindResources.
BindOrUnbindResources(gl, textures, usesBindlessTextures, bind) ==
    IF usesBindlessTextures THEN gl ELSE DispatchBind(gl, textures, bind)

\* The spec vectors GetBufferSpecs is handed: empty, or holding the spec of a
\* fallback value.
InitialSpecs == { <<>>, <<BufferSpec(Plain("roughness"), "fallbackValue")>> }

\* textureBinder.cpp:47-85
CallGetBufferSpecs ==
    \E textures \in NamedTextureHandleVectors : \E specs \in InitialSpecs :
        /\ call' = [op |-> "GetBufferSpecs", textures |-> textures,
                    texturesAfter |-> textures, before |-> specs,
                    after |-> GetBufferSpecs(textures,
                                             settings.bindlessTextureEnabled,
                                             specs),
                    log |-> <<>>,
                    errors |-> GetBufferSpecsErrors(textures)]
        /\ UNCHANGED <<mat, shader, dirtyBits, fallbackGlslfx, glslfxHeap,
                       textureHandles, settings, pc, frame, lastSynced, pass,
                       device, primvar>>

\* textureBinder.cpp:348-354
CallComputeBufferSources ==
    \E textures \in NamedTextureHandleVectors :
        /\ call' = [op |-> "ComputeBufferSources", textures |-> textures,
                    texturesAfter |-> textures, before |-> <<>>,
                    after |-> ComputeBufferSources(
                                  textures, settings.bindlessTextureEnabled,
                                  <<>>),
                    log |-> <<>>,
                    errors |-> ComputeBufferSourcesErrors(
                                   textures, settings.bindlessTextureEnabled)]
        /\ UNCHANGED <<mat, shader, dirtyBits, fallbackGlslfx, glslfxHeap,
                       textureHandles, settings, pc, frame, lastSynced, pass,
                       device, primvar>>

\* No BindResources call went right before.
NoPrevious ==
    [op |-> "none", textures |-> <<>>, log |-> <<>>, activeBefore |-> 0]

\* textureBinder.cpp:356-366 (bind) and 368-378 (unbind); previous remembers the
\* BindResources call an UnbindResources call follows.
CallBindResources(bind) ==
    \E textures \in NamedTextureHandleVectors :
      \E gl \in { BindOrUnbindResources([device |-> device, log |-> <<>>],
                                        textures,
                                        settings.bindlessTextureEnabled, bind) } :
        /\ device' = gl.device
        /\ call' = [op |-> IF bind THEN "BindResources" ELSE "UnbindResources",
                    textures |-> textures, texturesAfter |-> textures,
                    before |-> <<>>, after |-> <<>>, log |-> gl.log,
                    errors |-> BindOrUnbindResourcesErrors(
                                   textures, settings.bindlessTextureEnabled),
                    activeBefore |-> device.activeTexture,
                    previous |-> IF ~bind /\ call.op = "BindResources"
                                 THEN [op |-> call.op,
                                       textures |-> call.textures,
                                       log |-> call.log,
                                       activeBefore |-> call.activeBefore]
                                 ELSE NoPrevious]
        /\ UNCHANGED <<mat, shader, dirtyBits, fallbackGlslfx, glslfxHeap,
                       textureHandles, settings, pc, frame, lastSynced, pass,
                       primvar>>

\* textureBinder.cpp:356-366
BindResources == CallBindResources(TRUE)
\* textureBinder.cpp:368-378
UnbindResources == CallBindResources(FALSE)

NextBinder ==
    \/ CallGetBufferSpecs
    \/ CallComputeBufferSources
    \/ BindResources
    \/ UnbindResources

SpecBinder == InitHandles /\ [][NextBinder]_vars

\* ---------------------------------------------- UsdImagingDataSourcePrimvar
\* HdPrimvarSchemaTokens, and the names asked for: the tokens and one name that
\* is none of them.
PrimvarSchemaTokens ==
    { "primvarValue", "indexedPrimvarValue", "indices", "interpolation", "role" }
PrimvarNames == PrimvarSchemaTokens \cup { "displayColor" }

\* A UsdAttributeQuery: IsValid(), HasValue(), ValueMightBeTimeVarying().
AttributeQuery(isValid, hasValue, valueMightBeTimeVarying) ==
    [isValid |-> isValid, hasValue |-> hasValue,
     valueMightBeTimeVarying |-> valueMightBeTimeVarying]
\* UsdAttributeQuery(): the query of no attribute.
InvalidAttributeQuery == AttributeQuery(FALSE, FALSE, FALSE)
ValidAttributeQueries ==
    { AttributeQuery(TRUE, h, v) : h \in BOOLEAN, v \in BOOLEAN }
AttributeQueries == ValidAttributeQueries \cup { InvalidAttributeQuery }

\* The null HdDataSourceBaseHandle.
NullDataSource == [kind |-> "null"]
\* UsdImagingDataSourceAttributeNew: the data source of an attribute query.
DataSourceAttributeNew(query) == [kind |-> "attribute", query |-> query]
\* HdPrimvarSchema::BuildInterpolationDataSource, BuildRoleDataSource: the data
\* source of a token.
BuildTokenDataSource(token) == [kind |-> "token", value |-> token]
InterpolationTokens == { "constant", "vertex" }
RoleTokens == { "", "color" }

\* dataSourcePrimvars.cpp:183-187
IsIndexed(indicesQuery) == indicesQuery.isValid /\ indicesQuery.hasValue

\* dataSourcePrimvars.cpp:203-227: the locators the constructor flags as time
\* varying, named by their last token.
FlaggedAsTimeVarying(valueQuery, indicesQuery) ==
    IF IsIndexed(indicesQuery)
    THEN (IF valueQuery.valueMightBeTimeVarying THEN { "indexedPrimvarValue" }
          ELSE {})
         \cup (IF indicesQuery.valueMightBeTimeVarying THEN { "indices" } ELSE {})
    ELSE IF valueQuery.valueMightBeTimeVarying THEN { "primvarValue" } ELSE {}

\* dataSourcePrimvars.cpp:189-228: the constructed object and what it flagged.
DataSourcePrimvarNew(valueQuery, indicesQuery, interpolation, role) ==
    [constructed |-> TRUE, valueQuery |-> valueQuery,
     indicesQuery |-> indicesQuery, interpolation |-> interpolation,
     role |-> role, flagged |-> FlaggedAsTimeVarying(valueQuery, indicesQuery)]

\* dataSourcePrimvars.cpp:230-247
Has(self, name) ==
    IF IsIndexed(self.indicesQuery)
    THEN name \in { "indexedPrimvarValue", "indices", "interpolation", "role" }
    ELSE name \in { "primvarValue", "interpolation", "role" }

\* dataSourcePrimvars.cpp:249-267
GetNames(self) ==
    <<"interpolation", "role">>
    \o (IF IsIndexed(self.indicesQuery)
        THEN <<"indexedPrimvarValue", "indices">>
        ELSE <<"primvarValue">>)

\* Serves the flat value of an indexed primvar as well.
Get_ValueAlways(self, name) ==
    IF name \in { "primvarValue", "indexedPrimvarValue" }
    THEN DataSourceAttributeNew(self.valueQuery)
    ELSE IF IsIndexed(self.indicesQuery) /\ name = "indices"
    THEN DataSourceAttributeNew(self.indicesQuery)
    ELSE IF name = "interpolation" THEN self.interpolation
    ELSE IF name = "role" THEN self.role
    ELSE NullDataSource
\* dataSourcePrimvars.cpp:269-297
Get(self, name) ==
    IF IsIndexed(self.indicesQuery) /\ name = "indexedPrimvarValue"
    THEN DataSourceAttributeNew(self.valueQuery)
    ELSE IF IsIndexed(self.indicesQuery) /\ name = "indices"
    THEN DataSourceAttributeNew(self.indicesQuery)
    ELSE IF ~IsIndexed(self.indicesQuery) /\ name = "primvarValue"
    THEN DataSourceAttributeNew(self.valueQuery)
    ELSE IF name = "interpolation" THEN self.interpolation
    ELSE IF name = "role" THEN self.role
    ELSE NullDataSource

\* dataSourcePrimvars.cpp:120-150: UsdImagingDataSourcePrimvars::Get constructs
\* the data source of a namespaced primvar, whose indices attribute may be
\* absent or without value, or of a custom primvar, which has an authored value
\* and no indices.
PrimvarsGet ==
    \E custom \in BOOLEAN :
      \E valueQuery \in ValidAttributeQueries :
        \E indicesQuery \in AttributeQueries :
          \E interpolation \in InterpolationTokens : \E role \in RoleTokens :
            /\ custom => (valueQuery.hasValue /\ indicesQuery = InvalidAttributeQuery)
            /\ primvar' = DataSourcePrimvarNew(
                              valueQuery, indicesQuery,
                              BuildTokenDataSource(interpolation),
                              BuildTokenDataSource(role))
            /\ call' = [op |-> "PrimvarsGet", custom |-> custom]
            /\ UNCHANGED <<mat, shader, dirtyBits, fallbackGlslfx, glslfxHeap,
                           textureHandles, settings, pc, frame, lastSynced,
                           pass, device>>

\* dataSourcePrimvars.cpp:230-247
CallHas ==
    \E name \in PrimvarNames :
        /\ primvar.constructed
        /\ call' = [op |-> "Has", name |-> name, result |-> Has(primvar, name)]
        /\ UNCHANGED <<mat, shader, dirtyBits, fallbackGlslfx, glslfxHeap,
                       textureHandles, settings, pc, frame, lastSynced, pass,
                       device, primvar>>

\* dataSourcePrimvars.cpp:249-267
CallGetNames ==
    /\ primvar.constructed
    /\ call' = [op |-> "GetNames", name |-> "", result |-> GetNames(primvar)]
    /\ UNCHANGED <<mat, shader, dirtyBits, fallbackGlslfx, glslfxHeap,
                   textureHandles, settings, pc, frame, lastSynced, pass,
                   device, primvar>>

\* dataSourcePrimvars.cpp:269-297
CallGet ==
    \E name \in PrimvarNames :
        /\ primvar.constructed
        /\ call' = [op |-> "Get", name |-> name, result |-> Get(primvar, name)]
        /\ UNCHANGED <<mat, shader, dirtyBits, fallbackGlslfx, glslfxHeap,
                       textureHandles, settings, pc, frame, lastSynced, pass,
                       device, primvar>>

NextPrimvar ==
    \/ PrimvarsGet
    \/ CallHas
    \/ CallGetNames
    \/ CallGet

SpecPrimvar == Init /\ [][NextPrimvar]_vars

\* ----------------------------------------------------------------- claims
LastWasSync == pass.op = "Sync"
LastWasDirtyPass == pass.op = "Sync" /\ pass.ran

\* C1: a Sync whose mask has neither DirtyResource nor DirtyParams changes no
\* member of the material, nothing of its surface shader, none of its internal
\* texture handles and no shared state, calls neither MarkBatchesDirty nor
\* MarkAllRprimsDirty, and leaves the mask Clean; in every reachable state.
C1_CleanSyncIsNoOp ==
    [][ (pass'.op = "Sync" /\ ~pass'.maskDirty) =>
          /\ UNCHANGED <<mat, shader, fallbackGlslfx, glslfxHeap,
                         textureHandles, lastSynced>>
          /\ ~pass'.ran
          /\ pass'.markBatchesDirty = 0
          /\ pass'.markAllRprimsDirty = 0
          /\ dirtyBits'[pass'.m] = Clean
          /\ \A n \in Materials \ { pass'.m } : dirtyBits'[n] = dirtyBits[n]
      ]_vars
\* A clean-mask Sync of a material that earlier passes left initialized,
\* displacing and with a non-default tag.
C1_Witness ==
    /\ LastWasSync /\ ~pass.maskDirty /\ pass.wasInitialized
    /\ mat[pass.m].hasDisplacement
    /\ mat[pass.m].materialTag # DefaultMaterialTag

\* C2: a dirty pass of an initialized material whose computed material tag
\* differs from the stored one calls MarkBatchesDirty.
C2_TagChangeMarksBatchesDirty ==
    (LastWasDirtyPass /\ pass.wasInitialized /\ pass.tagDiffers)
        => pass.markBatchesDirty >= 1

\* C3: a dirty pass of an initialized material with an unchanged tag whose
\* fragment or geometry source differs from the text the previous pass stored
\* in the surface shader calls MarkBatchesDirty.
C3_SourceChangeMarksBatchesDirty ==
    (LastWasDirtyPass /\ pass.wasInitialized /\ pass.shaderWasSynced
     /\ ~pass.tagDiffers /\ pass.sourceDiffers)
        => pass.markBatchesDirty >= 1

\* C4: a Sync makes no MarkBatchesDirty call when tag and both sources equal
\* those the previous pass left, and none on the material's first dirty sync.
C4_NoSpuriousBatchInvalidation ==
    (LastWasSync
     /\ \/ ~pass.wasInitialized
        \/ (pass.shaderWasSynced /\ ~pass.tagDiffers /\ ~pass.sourceDiffers))
        => pass.markBatchesDirty = 0
\* A second dirty pass that resolved the same tag and the same non-empty sources.
C4_Witness ==
    /\ LastWasDirtyPass /\ pass.wasInitialized /\ pass.shaderWasSynced
    /\ ~pass.tagDiffers /\ ~pass.sourceDiffers
    /\ shader[pass.m].fragmentSource = "F2"
    /\ shader[pass.m].geometrySource = "G1"
    /\ pass.markBatchesDirty = 0

\* C5: a dirty pass of an initialized material in which has-displacement,
\* has-limit-surface-evaluation or has-ptex changed calls MarkAllRprimsDirty
\* exactly once, however many changed; the first dirty pass never calls it.
C5_FlagChangeInvalidatesOnce ==
    LastWasDirtyPass =>
        /\ (pass.wasInitialized /\ pass.flagsChanged >= 1)
               => pass.markAllRprimsDirty = 1
        /\ ~pass.wasInitialized => pass.markAllRprimsDirty = 0
\* All three flags changed in one non-initial pass, and one call was made.
C5_Witness ==
    /\ LastWasDirtyPass /\ pass.wasInitialized
    /\ pass.flagsChanged = 3
    /\ pass.markAllRprimsDirty = 1

\* Some Texture parameter of the list has texture type Ptex.
HasPtexTexture(params) ==
    \E i \in 1..Len(params) :
        params[i].paramType = "Texture" /\ params[i].textureType = "Ptex"

FlagsMatchLastSync(m) ==
    /\ mat[m].hasLimitSurfaceEvaluation = lastSynced[m].metaHoldsTrue
    /\ mat[m].hasPtex = HasPtexTexture(lastSynced[m].params)
DisplacementMatchesShader(m) ==
    mat[m].hasDisplacement = (shader[m].geometrySource # "")

\* C6 as stated: in every state of an initialized material the three flags
\* agree with the shader's geometry source, the last synced metadata and the
\* last synced parameter list.
C6_FlagsConsistentInEveryState ==
    \A m \in Materials :
        mat[m].isInitialized => FlagsMatchLastSync(m) /\ DisplacementMatchesShader(m)
\* C6 amended: after every dirty pass, and from then on for as long as the
\* surface shader is the object that pass wrote (no SetSurfaceShader since),
\* _hasDisplacement agrees with the shader's geometry source; the other two
\* flags agree with the last synced metadata and parameters in every state.
C6_FlagsConsistentWhileShaderKept ==
    \A m \in Materials :
        mat[m].isInitialized =>
            /\ FlagsMatchLastSync(m)
            /\ shader[m].synced => DisplacementMatchesShader(m)
\* A material whose last pass set all three flags.
C6_Witness ==
    \E m \in Materials :
        /\ mat[m].isInitialized /\ shader[m].synced
        /\ mat[m].hasDisplacement /\ mat[m].hasLimitSurfaceEvaluation
        /\ mat[m].hasPtex

\* C7: a dirty pass on a resource that is no network map, or has no terminals,
\* or has no nodes, completes on the fallback shader: the fragment source is
\* the fallback's surface source, the geometry source is empty,
\* _hasDisplacement is false and the parameter list is empty.
C7_InvalidNetworkUsesFallback ==
    (LastWasDirtyPass /\ ~pass.usable) =>
        /\ pass.glslfx # Nullptr
        /\ pass.glslfx = fallbackGlslfx
        /\ shader[pass.m].fragmentSource = glslfxHeap[pass.glslfx].surfaceSource
        /\ shader[pass.m].geometrySource = ""
        /\ ~mat[pass.m].hasDisplacement
        /\ shader[pass.m].params = <<>>
        /\ mat[pass.m].isInitialized
        /\ dirtyBits[pass.m] = Clean
\* An initialized material degraded to a successfully loaded fallback shader.
C7_Witness ==
    /\ LastWasDirtyPass /\ ~pass.usable /\ pass.wasInitialized
    /\ pass.glslfx # Nullptr
    /\ glslfxHeap[pass.glslfx].valid
    /\ shader[pass.m].fragmentSource = "FB"

\* C8: however the Syncs of the materials interleave, the fallback shader is
\* constructed at most once and all materials read the same object.
C8_FallbackConstructedOnce ==
    /\ Len(glslfxHeap) <= 1
    /\ \A m, n \in Materials :
           (frame[m].glslfx # Nullptr /\ frame[n].glslfx # Nullptr)
               => frame[m].glslfx = frame[n].glslfx

\* C9: once a load of the fallback shader has failed, no further load is
\* attempted: a failed load is the last (and only) one.
C9_NoReloadAfterFailure ==
    \A i \in 1..Len(glslfxHeap) :
        ~glslfxHeap[i].valid => (i = 1 /\ Len(glslfxHeap) = 1)

\* C10: every Sync returns with the mask Clean; a pass whose mask was dirty
\* leaves _isInitialized true; and _isInitialized never goes back to false.
C10_SyncReturnsClean ==
    [][ /\ pass'.op = "Sync" =>
              /\ dirtyBits'[pass'.m] = Clean
              /\ pass'.maskDirty => mat'[pass'.m].isInitialized
        /\ \A m \in Materials : mat[m].isInitialized => mat'[m].isInitialized
      ]_vars
\* A pass that ran on a fallback shader whose load had failed.
C10_Witness ==
    /\ LastWasDirtyPass
    /\ pass.glslfx # Nullptr
    /\ ~glslfxHeap[pass.glslfx].valid
    /\ dirtyBits[pass.m] = Clean
    /\ mat[pass.m].isInitialized

\* The Texture parameters of a list that the legacy per-parameter path
\* resolves: all of them with the toggle off, the types other than Uv, Field
\* and Ptex with the toggle on.
LegacyTextureParams(params, toggle) ==
    SelectSeq(params,
              LAMBDA p : /\ p.paramType = "Texture"
                         /\ ~(toggle /\ p.textureType \in {"Uv", "Field", "Ptex"}))
\* The Texture parameters of a list left to the new texture system.
ModernTextureParams(params, toggle) ==
    SelectSeq(params,
              LAMBDA p : /\ p.paramType = "Texture"
                         /\ toggle /\ p.textureType \in {"Uv", "Field", "Ptex"})
NamesOf(xs) == [i \in 1..Len(xs) |-> xs[i].name]

\* C11: after any sequence of Syncs a material owns at most as many internal
\* texture handles as its most recent dirty pass resolved Texture parameters
\* through the legacy path: the handles of earlier passes are gone.
C11_InternalHandlesDoNotGrow ==
    \A m \in Materials :
        Len(mat[m].internalTextureResourceHandles)
            <= Len(LegacyTextureParams(lastSynced[m].params,
                                       settings.useNewTextureSystem))
\* A second dirty pass that, like the one before it, created two handles.
C11_Witness ==
    /\ LastWasDirtyPass /\ pass.wasInitialized
    /\ Len(lastSynced[pass.m].params) = 4
    /\ Len(mat[pass.m].internalTextureResourceHandles) = 2

\* C14: the registry's shared handles never hold a fallback 1x1 texture; every
\* fallback texture a material created sits in a handle of its own internal
\* list.
C14_FallbackNeverShared ==
    /\ \A c \in Connections : textureHandles[c].origin # "fallback1x1"
    /\ \A m \in Materials :
         \A i \in 1..Len(shader[m].textureDescriptors) :
            LET handle == shader[m].textureDescriptors[i].handle
            IN  handle.resource.origin = "fallback1x1" =>
                  /\ handle.kind = "internal"
                  /\ shader[m].synced =>
                       \E k \in 1..Len(mat[m].internalTextureResourceHandles) :
                          mat[m].internalTextureResourceHandles[k] = handle
\* A pass created the fallback texture of the connected parameter uvA (fallback
\* value v3) while the registry held a shared handle for its connection.
C14_Witness ==
    /\ LastWasDirtyPass
    /\ \E k \in 1..Len(mat[pass.m].internalTextureResourceHandles) :
          mat[pass.m].internalTextureResourceHandles[k].resource
              = [origin |-> "fallback1x1", value |-> "v3"]
    /\ textureHandles["/tex"] = NullResource

\* C15: after a dirty pass the legacy descriptors of the shader are those of
\* exactly the Texture parameters with NOT (toggle on and type Uv, Field or
\* Ptex); with the toggle off no named texture handle is allocated and the
\* buffer specs hold no texture entry; with the toggle on there is one allocated
\* handle per Texture parameter of type Uv, Field or Ptex, in order, and none
\* for the other types.
C15_LegacyPathIffNotModern ==
    LastWasDirtyPass =>
        LET toggle == settings.useNewTextureSystem
            params == lastSynced[pass.m].params
            sh == shader[pass.m]
        IN  /\ NamesOf(sh.textureDescriptors)
                 = NamesOf(LegacyTextureParams(params, toggle))
            /\ ~toggle =>
                 /\ sh.namedTextureHandles = <<>>
                 /\ \A i \in 1..Len(sh.bufferSpecs) :
                        sh.bufferSpecs[i].tupleType
                            \notin { BindlessHandleTupleType, DoubleMat4TupleType }
            /\ toggle =>
                 NamesOf(sh.namedTextureHandles)
                     = NamesOf(ModernTextureParams(params, toggle))
\* A pass with the toggle on split four textures: Udim went the legacy way, the
\* three others got allocated handles.
C15_Witness ==
    /\ LastWasDirtyPass /\ settings.useNewTextureSystem
    /\ NamesOf(shader[pass.m].textureDescriptors) = <<"udimB">>
    /\ NamesOf(shader[pass.m].namedTextureHandles) = <<"uvA", "fieldC", "uvD">>

LastWasResolve == call.op = "GetTextureResourceHandle"

\* C12: legacy resolution of an unconnected Texture parameter returns, for type
\* Uv, a non-empty handle wrapping a 1x1 texture of the parameter's fallback
\* value; for every other type an empty handle, creating no internal handle.
C12_UnconnectedResolution ==
    (LastWasResolve /\ call.param.connection = "") =>
        IF call.param.textureType = "Uv"
        THEN /\ call.handle # EmptyHandle
             /\ call.handle.resource
                    = [origin |-> "fallback1x1",
                       value |-> call.param.fallbackValue]
        ELSE /\ call.handle = EmptyHandle
             /\ call.internal = <<>>
\* An unconnected Uv parameter with fallback value v1 was resolved.
C12_Witness ==
    /\ LastWasResolve /\ call.param.connection = ""
    /\ call.param.textureType = "Uv" /\ call.param.fallbackValue = "v1"
    /\ call.handle.resource.value = "v1"

\* No resource from the registry and none from the scene delegate.
NoResourceObtained(env) ==
    ~(env.texIDValid /\ env.textureResourceFound) /\ ~env.delegateHasResource

\* C13: legacy resolution of a connected Texture parameter returns an empty
\* handle exactly when neither the registry nor the scene delegate had a
\* resource and the type is not Uv; otherwise the handle carries a non-null
\* resource: the resolved one, or the 1x1 fallback for Uv.
C13_ConnectedResolution ==
    (LastWasResolve /\ call.param.connection # "") =>
        /\ (call.handle = EmptyHandle)
               <=> (NoResourceObtained(call.env) /\ call.param.textureType # "Uv")
        /\ call.handle # EmptyHandle =>
               /\ call.handle.resource # NullResource
               /\ NoResourceObtained(call.env) <=>
                      call.handle.resource.origin = "fallback1x1"
\* A Ptex parameter missed in the registry, whose shared handle exists, and got
\* the scene delegate's resource in a handle of the material's own.
C13_Witness ==
    /\ LastWasResolve /\ call.param.connection # ""
    /\ call.param.textureType = "Ptex"
    /\ call.registry[call.param.connection] # AbsentHandle
    /\ ~call.env.textureResourceFound /\ call.env.delegateHasResource
    /\ call.handle = InternalHandle(DelegateResource)

\* The requests of material m that reach the registry, in order, and the key of
\* a request.
RequestsOf(m) ==
    SelectSeq(frame[m].loc.textureDescriptors,
              LAMBDA d : d.type \in {"Uv", "Field", "Ptex"})
RequestKey(d) ==
    <<d.textureId, d.type, d.samplerParameters, settings.bindlessTextureEnabled>>

Appended == SubSeq(call.after, Len(call.before) + 1, Len(call.after))
\* The (name, tuple type) pairs of a vector of specs or sources.
NameAndType(xs) == [i \in 1..Len(xs) |-> <<xs[i].name, xs[i].tupleType>>]
Bindless == settings.bindlessTextureEnabled
HandleEntry(name, suffix) == << <<name, suffix>>, "UInt32Vec2x1" >>
TransformEntry(name) == << <<name, "SamplingTransform">>, "DoubleMat4x1" >>

\* C17: GetBufferSpecs on one Ptex texture appends in bindless mode exactly the
\* base name and '<name>_layout', both of the handle tuple type, and nothing in
\* non-bindless mode; on one Uv texture exactly the base name as a handle entry
\* in bindless mode and nothing otherwise.
C17_PtexAndUvSpecs ==
    (call.op = "GetBufferSpecs" /\ Len(call.textures) = 1) =>
        LET t == call.textures[1]
        IN  /\ t.type = "Ptex" =>
                 NameAndType(Appended)
                   = IF Bindless
                     THEN <<HandleEntry(t.name, ""), HandleEntry(t.name, "_layout")>>
                     ELSE <<>>
            /\ t.type = "Uv" =>
                 NameAndType(Appended)
                   = IF Bindless THEN <<HandleEntry(t.name, "")>> ELSE <<>>
\* The two entries of a Ptex texture were appended to a non-empty vector.
C17_Witness ==
    /\ call.op = "GetBufferSpecs" /\ call.textures = <<PtexTexture>>
    /\ Bindless /\ call.before # <<>>
    /\ Len(call.after) = Len(call.before) + 2

\* C18: GetBufferSpecs on one Field texture appends '<name>SamplingTransform'
\* of 4x4 double-matrix type in either mode, and the base-name handle entry if
\* and only if bindless mode is on; nothing else.
C18_FieldSpecs ==
    (call.op = "GetBufferSpecs" /\ Len(call.textures) = 1
     /\ call.textures[1].type = "Field") =>
        LET t == call.textures[1]
            entries == { NameAndType(Appended)[i] : i \in 1..Len(Appended) }
        IN  /\ TransformEntry(t.name) \in entries
            /\ HandleEntry(t.name, "") \in entries <=> Bindless
            /\ entries \subseteq { TransformEntry(t.name), HandleEntry(t.name, "") }
            /\ Len(Appended) = Cardinality(entries)
\* A Field texture got only its sampling transform in non-bindless mode.
C18_Witness ==
    /\ call.op = "GetBufferSpecs" /\ call.textures = <<FieldTexture>>
    /\ ~Bindless
    /\ NameAndType(Appended) = <<TransformEntry("f")>>

\* C19: a call of GetBufferSpecs keeps the entries it was handed, unchanged and
\* in order, in front of the ones it appends; the appended entries follow the
\* order of the textures; the textures are not modified; and the device state
\* is left as it was.
C19_GetBufferSpecsOnlyAppends ==
    [][ call'.op = "GetBufferSpecs" =>
          /\ Len(call'.after) >= Len(call'.before)
          /\ SubSeq(call'.after, 1, Len(call'.before)) = call'.before
          /\ \A i, j \in (Len(call'.before) + 1)..Len(call'.after) :
                i < j =>
                  (CHOOSE k \in 1..Len(call'.textures) :
                       call'.textures[k].name = call'.after[i].name[1])
                  <= (CHOOSE k \in 1..Len(call'.textures) :
                          call'.textures[k].name = call'.after[j].name[1])
          /\ call'.texturesAfter = call'.textures
          /\ device' = device
      ]_vars
\* Entries of two textures were appended behind an existing one while textures
\* were bound on the device.
C19_Witness ==
    /\ call.op = "GetBufferSpecs" /\ call.before # <<>>
    /\ call.textures = <<FieldTexture, UvTexture>>
    /\ Len(Appended) = 1
    /\ device # NoDevice

\* The textures the binder can work on: a dispatched type and matching objects.
WellTyped(t) ==
    /\ t.type \in { "Uv", "Field", "Ptex" }
    /\ t.textureObject = t.type /\ t.samplerObject = t.type
HandleSources(xs) == SelectSeq(xs, LAMBDA x : x.tupleType = "UInt32Vec2x1")

\* C20 as stated: for one texture, ComputeBufferSources emits in bindless mode
\* one handle source, for a Field texture also the sampling transform in either
\* mode, and in non-bindless mode nothing for Uv and Ptex.
C20_OneHandleSourcePerTexture ==
    (call.op = "ComputeBufferSources" /\ Len(call.textures) = 1
     /\ WellTyped(call.textures[1])) =>
        LET t == call.textures[1]
        IN  /\ Bindless => Len(HandleSources(call.after)) = 1
            /\ t.type = "Field" =>
                 \E i \in 1..Len(call.after) :
                    NameAndType(call.after)[i] = TransformEntry(t.name)
            /\ (~Bindless /\ t.type \in { "Uv", "Ptex" }) => call.after = <<>>
\* What a well-typed texture gets: the sampling transform for a field, and in
\* bindless mode the handle under its name, for Ptex also under <name>_layout.
ExpectedSources(t) ==
    (IF t.type = "Field" THEN { TransformEntry(t.name) } ELSE {})
    \cup (IF Bindless THEN { HandleEntry(t.name, "") } ELSE {})
    \cup (IF Bindless /\ t.type = "Ptex" THEN { HandleEntry(t.name, "_layout") }
          ELSE {})
\* C20 amended: the sources ComputeBufferSources emits are, for every
\* well-typed texture of the list, one handle source under its name in
\* bindless mode, a second one under '<name>_layout' for Ptex, and the sampling
\* transform of a Field texture in either mode; nothing else, so nothing for Uv
\* and Ptex in non-bindless mode.
C20_SourcesPerTexture ==
    call.op = "ComputeBufferSources" =>
        LET expected ==
                UNION { ExpectedSources(call.textures[k]) :
                          k \in { i \in 1..Len(call.textures) :
                                    WellTyped(call.textures[i]) } }
        IN  /\ { NameAndType(call.after)[i] : i \in 1..Len(call.after) } = expected
            /\ Len(call.after) = Cardinality(expected)
\* A Ptex and a Field texture in bindless mode: four sources.
C20_Witness ==
    /\ call.op = "ComputeBufferSources" /\ Bindless
    /\ call.textures = <<PtexTexture, FieldTexture>>
    /\ Len(call.after) = 4

\* C21: when, in bindless mode, the sampler of a texture yields a zero bindless
\* handle, ComputeBufferSources reports a coding error and skips the offending
\* operation: no buffer source carrying the zero handle is among the sources.
C21_ZeroHandleSkipped ==
    (call.op = "ComputeBufferSources" /\ Bindless) =>
        /\ (\E i \in 1..Len(call.textures) :
               WellTyped(call.textures[i]) /\ call.textures[i].bindlessHandle = 0)
           => \E k \in 1..Len(call.errors) :
                 call.errors[k] = "Invalid texture handle"
        /\ \A i \in 1..Len(call.after) :
              ~(call.after[i].tupleType = "UInt32Vec2x1"
                /\ call.after[i].value = 0)

BinderOps ==
    { "GetBufferSpecs", "ComputeBufferSources", "BindResources",
      "UnbindResources" }
DispatchMessages ==
    { "Unsupported texture type", "Bad texture object", "Bad sampler object" }
\* The errors of the last call that _Dispatch or a default case reported.
DispatchErrorCount ==
    Cardinality({ k \in 1..Len(call.errors) : call.errors[k] \in DispatchMessages })
\* What the last call contributed for a texture: the specs or sources under its
\* name, and the binder lookups that start its device calls.
EntriesOf(t) ==
    { NameAndType(Appended)[i] :
        i \in { j \in 1..Len(Appended) : Appended[j].name[1] = t.name } }
CallsFor(t) ==
    { i \in 1..Len(call.log) :
        call.log[i][1] = "GetBinding" /\ call.log[i][2][1] = t.name }
\* The last call worked on a texture as on a well-typed one.
Processed(t) ==
    IF call.op \in { "GetBufferSpecs", "ComputeBufferSources" }
    THEN EntriesOf(t) = ExpectedSources(t)
    ELSE IF Bindless THEN CallsFor(t) = {} ELSE CallsFor(t) # {}
\* The device calls of a bind or unbind: four log entries for each Uv or Field
\* texture in the set of indices, six for each Ptex texture.
LogLengthFor(indices) ==
    4 * Cardinality({ i \in indices : call.textures[i].type \in { "Uv", "Field" } })
    + 6 * Cardinality({ i \in indices : call.textures[i].type = "Ptex" })

\* C22 as stated: for a texture of unsupported declared type or with a texture
\* or sampler object not matching its declared type, each of GetBufferSpecs,
\* ComputeBufferSources, BindResources and UnbindResources reports a coding
\* error, contributes nothing for it, and still processes the other textures.
C22_FaultyTexturesSkippedByAll ==
    call.op \in BinderOps =>
        LET faulty == { i \in 1..Len(call.textures) : ~WellTyped(call.textures[i]) }
        IN  /\ DispatchErrorCount >= Cardinality(faulty)
            /\ \A i \in faulty :
                  EntriesOf(call.textures[i]) = {} /\ CallsFor(call.textures[i]) = {}
            /\ \A i \in 1..Len(call.textures) \ faulty : Processed(call.textures[i])

\* The faulty textures a call gets to see: GetBufferSpecs looks at the declared
\* type only, BindResources and UnbindResources at nothing in bindless mode.
SeenFaulty ==
    { i \in 1..Len(call.textures) :
        IF call.op = "GetBufferSpecs"
        THEN call.textures[i].type \notin { "Uv", "Field", "Ptex" }
        ELSE IF call.op = "ComputeBufferSources"
        THEN ~WellTyped(call.textures[i])
        ELSE ~Bindless /\ ~WellTyped(call.textures[i]) }
\* C22 amended: GetBufferSpecs and ComputeBufferSources, and in non-bindless
\* mode BindResources and UnbindResources, report one coding error for each
\* texture of unsupported declared type and contribute nothing for it;
\* ComputeBufferSources and non-bindless BindResources and UnbindResources do
\* the same for a texture whose texture or sampler object does not match its
\* declared type, whereas GetBufferSpecs appends the entries of the declared
\* type for it without an error; in bindless mode BindResources and
\* UnbindResources report nothing; all other textures are processed.
C22_FaultyTexturesSkippedWhereSeen ==
    call.op \in BinderOps =>
        /\ DispatchErrorCount = Cardinality(SeenFaulty)
        /\ \A i \in SeenFaulty :
              EntriesOf(call.textures[i]) = {} /\ CallsFor(call.textures[i]) = {}
        /\ \A i \in 1..Len(call.textures) \ SeenFaulty : Processed(call.textures[i])
        /\ call.op \in { "BindResources", "UnbindResources" } =>
              Len(call.log) = IF Bindless THEN 0
                              ELSE LogLengthFor(1..Len(call.textures) \ SeenFaulty)
\* BindResources met a texture with a mismatched texture object, reported it
\* and went on to bind the field texture behind it.
C22_Witness ==
    /\ call.op = "BindResources" /\ ~Bindless
    /\ call.textures = <<MistypedTexture, FieldTexture>>
    /\ call.errors = <<"Bad texture object">>
    /\ Len(call.log) = 4
    /\ device.textures[<<GetTextureUnit(Plain("f")), "GL_TEXTURE_3D">>] = 12

\* C23: whenever bindless mode is active, a BindResources or UnbindResources
\* call makes no device call at all (no binder lookup, no change of the active
\* unit, no texture or sampler bind), whatever the list of textures, faulty
\* ones included, and leaves the device binding state as it was.
C23_BindlessBindIsNoOp ==
    [][ (call'.op \in { "BindResources", "UnbindResources" }
         /\ settings.bindlessTextureEnabled) =>
            /\ call'.log = <<>>
            /\ device' = device
      ]_vars
\* UnbindResources was called in bindless mode on a list holding a mistyped
\* texture and a Ptex texture and did nothing.
C23_Witness ==
    /\ call.op = "UnbindResources" /\ Bindless
    /\ call.textures = <<MistypedSampler, PtexTexture>>
    /\ call.log = <<>>
    /\ device = NoDevice

\* The device target of a declared shape.
TargetOf(type) == IF type = "Uv" THEN "GL_TEXTURE_2D" ELSE "GL_TEXTURE_3D"
\* The device calls BindResources is to make for a Uv or Field texture, with
\* texture 0 in place of a device object that is missing, and for a Ptex one.
ExpectedBindCalls(t) ==
    IF t.type = "Ptex"
    THEN << <<"GetBinding", <<t.name, "">> >>,
            <<"glActiveTexture", GetTextureUnit(<<t.name, "">>)>>,
            <<"glBindTexture", GetTextureUnit(<<t.name, "">>),
              "GL_TEXTURE_2D_ARRAY", t.textureName>>,
            <<"GetBinding", <<t.name, "_layout">> >>,
            <<"glActiveTexture", GetTextureUnit(<<t.name, "_layout">>)>>,
            <<"glBindTexture", GetTextureUnit(<<t.name, "_layout">>),
              "GL_TEXTURE_BUFFER", t.layoutTextureName>> >>
    ELSE << <<"GetBinding", <<t.name, "">> >>,
            <<"glActiveTexture", GetTextureUnit(<<t.name, "">>)>>,
            <<"glBindTexture", GetTextureUnit(<<t.name, "">>), TargetOf(t.type),
              IF t.isHgiGLTexture THEN t.textureName ELSE 0>>,
            <<"glBindSampler", GetTextureUnit(<<t.name, "">>), t.samplerName>> >>
\* The calls expected for the well-typed textures of a list, in its order.
RECURSIVE ExpectedBindLog(_)
ExpectedBindLog(textures) ==
    IF textures = <<>> THEN <<>>
    ELSE (IF WellTyped(Head(textures)) THEN ExpectedBindCalls(Head(textures))
          ELSE <<>>)
         \o ExpectedBindLog(Tail(textures))

C25_RprimsDirtyIffFlagOrTagChanged ==
    (LastWasDirtyPass /\ pass.wasInitialized) =>
        /\ pass.markAllRprimsDirty \in { 0, 1 }
        /\ pass.markAllRprimsDirty = 1
              <=> (pass.flagsChanged >= 1 \/ pass.tagDiffers)
\* A later pass changed the material tag and none of the three flags, and the
\* rprims were invalidated.
C25_Witness ==
    /\ LastWasDirtyPass /\ pass.wasInitialized
    /\ pass.tagDiffers /\ pass.flagsChanged = 0
    /\ pass.markAllRprimsDirty = 1

\* The result of the registry lookup of the last resolution: the resource found,
\* or null when the texture id is invalid or the lookup missed.
RegistryLookup ==
    IF call.env.texIDValid /\ call.env.textureResourceFound
    THEN RegistryResource ELSE NullResource

\* C26: legacy resolution of a connected Texture parameter for which the
\* registry holds a shared handle overwrites that handle's texture resource
\* with the result of this pass's registry lookup, the found resource or null,
\* whatever the handle held before; a resource obtained afterwards from the
\* scene delegate or a fallback texture is never written to the shared handle,
\* and a registry without a handle for the connection stays as it was.
C26_SharedHandleOverwritten ==
    (LastWasResolve /\ call.param.connection # "") =>
        IF call.registry[call.param.connection] # AbsentHandle
        THEN textureHandles
               = [call.registry EXCEPT ![call.param.connection] = RegistryLookup]
        ELSE textureHandles = call.registry
\* The shared handle held the registry's resource; the lookup missed, the
\* delegate delivered a resource, which went into an internal handle, and the
\* shared handle was left with a null resource.
C26_Witness ==
    /\ LastWasResolve /\ call.param.connection = "/tex"
    /\ call.registry["/tex"] = RegistryResource
    /\ ~call.env.textureResourceFound /\ call.env.delegateHasResource
    /\ call.handle = InternalHandle(DelegateResource)
    /\ textureHandles["/tex"] = NullResource

\* How often an entry occurs in a sequence.
CountIn(xs, e) == Cardinality({ i \in 1..Len(xs) : xs[i] = e })
\* The (name, tuple type) pairs GetBufferSpecs appends for the textures of the
\* last call under the same bindless flag.
SpecPairs ==
    NameAndType(GetBufferSpecs(call.textures, settings.bindlessTextureEnabled, <<>>))

\* C27: for a list of textures of declared type Uv, Field or Ptex with matching
\* texture and sampler objects and a fixed bindless flag, the (name, tuple type)
\* pairs GetBufferSpecs appends and those of the buffer sources
\* ComputeBufferSources appends are equal as multisets; the order of the two
\* entries of a Field texture may differ.
C27_SpecsMatchSources ==
    (call.op = "ComputeBufferSources"
     /\ \A i \in 1..Len(call.textures) : WellTyped(call.textures[i])) =>
        LET sourcePairs == NameAndType(call.after)
        IN  /\ Len(sourcePairs) = Len(SpecPairs)
            /\ \A i \in 1..Len(SpecPairs) :
                  CountIn(sourcePairs, SpecPairs[i]) = CountIn(SpecPairs, SpecPairs[i])
            /\ \A i \in 1..Len(sourcePairs) :
                  CountIn(SpecPairs, sourcePairs[i]) = CountIn(sourcePairs, sourcePairs[i])
\* A Field and a Uv texture in bindless mode: three sources with the pairs of
\* the three specs, the field's two in the other order.
C27_Witness ==
    /\ call.op = "ComputeBufferSources" /\ Bindless
    /\ call.textures = <<FieldTexture, UvTexture>>
    /\ Len(call.after) = 3
    /\ NameAndType(call.after) # SpecPairs
    /\ NameAndType(call.after)[1] = SpecPairs[2]

\* The (unit, target) pairs of the glBindTexture calls of a log, and the units
\* of its glBindSampler calls.
BindPairs(log) ==
    { <<log[i][2], log[i][3]>> :
        i \in { j \in 1..Len(log) : log[j][1] = "glBindTexture" } }
SamplerUnits(log) ==
    { log[i][2] : i \in { j \in 1..Len(log) : log[j][1] = "glBindSampler" } }
\* The last call was UnbindResources in non-bindless mode, right after
\* BindResources with the same list of well-typed textures.
UnboundWhatWasBound ==
    /\ call.op = "UnbindResources" /\ ~Bindless
    /\ call.previous.op = "BindResources"
    /\ call.previous.textures = call.textures
    /\ \A i \in 1..Len(call.textures) : WellTyped(call.textures[i])

\* C28: in non-bindless mode, after BindResources followed by UnbindResources
\* with the same well-typed list, texture 0 is bound on every unit and target
\* BindResources touched and sampler 0 on every unit of a Uv or Field texture;
\* UnbindResources binds only zero objects, on exactly the (unit, target) pairs
\* of BindResources, and makes no call that restores the texture unit that was
\* active before: the unit of the last texture stays active.
C28_UnbindUndoesBind ==
    UnboundWhatWasBound =>
        /\ \A b \in BindPairs(call.previous.log) : device.textures[b] = 0
        /\ \A unit \in SamplerUnits(call.previous.log) : device.samplers[unit] = 0
        /\ \A i \in 1..Len(call.textures) :
              call.textures[i].type \in { "Uv", "Field" } =>
                 /\ GetTextureUnit(<<call.textures[i].name, "">>)
                       \in SamplerUnits(call.previous.log)
                 /\ device.samplers[GetTextureUnit(<<call.textures[i].name, "">>)] = 0
        /\ \A i \in 1..Len(call.log) :
              /\ call.log[i][1] = "glBindTexture" => call.log[i][4] = 0
              /\ call.log[i][1] = "glBindSampler" => call.log[i][3] = 0
              /\ call.log[i][1] = "glActiveTexture" =>
                    /\ i < Len(call.log)
                    /\ call.log[i + 1][1] = "glBindTexture"
                    /\ call.log[i + 1][2] = call.log[i][2]
        /\ BindPairs(call.log) = BindPairs(call.previous.log)
        /\ call.textures # <<>> =>
              LET last == call.textures[Len(call.textures)]
              IN  device.activeTexture
                    = GetTextureUnit(<<last.name,
                                       IF last.type = "Ptex" THEN "_layout" ELSE "">>)
\* A Uv and a Ptex texture were bound while unit 0 was active and then unbound:
\* their three bindings and the sampler are zero again, and the unit of the
\* Ptex layout is still the active one.
C28_Witness ==
    /\ UnboundWhatWasBound
    /\ call.textures = <<UvTexture, PtexTexture>>
    /\ call.previous.activeBefore = 0
    /\ Cardinality(BindPairs(call.log)) = 3
    /\ device.samplers[GetTextureUnit(<<"a", "">>)] = 0
    /\ device.activeTexture = GetTextureUnit(<<"p", "_layout">>)
    /\ device.activeTexture # call.previous.activeBefore

\* The keys a primvar data source is to expose: the indexed set when its
\* indices query is valid and has a value, the flat set otherwise.
ExposedKeys ==
    IF primvar.indicesQuery.isValid /\ primvar.indicesQuery.hasValue
    THEN { "interpolation", "role", "indexedPrimvarValue", "indices" }
    ELSE { "interpolation", "role", "primvarValue" }

====
